---- MODULE Spec2Model ----
(***************************************************************************)
(* fprintd: the per-device session/operation state machine of              *)
(* src/src/device.c and the sleep handshake of src/src/manager.c.          *)
(*                                                                         *)
(* One device object is modelled.  Its private struct is the record        *)
(* variable priv; the libfprint FpDevice it drives is the record fp (open  *)
(* flag, the asynchronous task in flight and what that task reported       *)
(* through the match callback); host is the template store.  Handlers run  *)
(* on one main loop: a step of the model is one dispatched source          *)
(* (method call, driver callback, timer, name-vanished callback).  A       *)
(* handler that iterates the main loop (Release, name vanished, VerifyStop *)
(* in its settle window) pushes a frame on stack and returns to it, in     *)
(* LIFO order, once its loop condition is false.                           *)
(***************************************************************************)
EXTENDS Integers, Sequences, FiniteSets, TLC

VARIABLES
  priv,      \* FprintDevicePrivate
  fp,        \* the FpDevice: is_open, task in flight, result reported by it
  host,      \* template store: the set of stored prints
  alive,     \* bus names still connected
  stack,     \* handlers parked in a nested main-loop iteration, innermost last
  out,       \* what the last step put on the bus / asked other services, in order
  op,        \* observer: counters of the signals of the current operation
  aborted,   \* the process hit g_assert / a NULL dereference
  env,       \* the device's capability flags and the finger names clients pass
  mgr,       \* FprintManagerPrivate and the seat service's view of it
  gc,        \* the reader's own storage and the last try_delete_print on it
  disk       \* the files of the file backend and the result of its last call

vars == <<priv, fp, host, alive, stack, out, op, aborted, env, mgr, gc, disk>>

(***************************************************************************)
(* Bounds and input sets                                                   *)
(***************************************************************************)
MaxStack == 1            \* nested main-loop iterations modelled
MaxSettleNest == 1       \* and those entered above a VerifyStop in its settle window

Senders == {"s1", "s2"}
Users == {"u1", "u2"}
\* getpwuid (GetConnectionUnixUser (sender))->pw_name
pw_name(s) == IF s = "s1" THEN "u1" ELSE "u2"
UsernameArgs == {"", "u2"}

OK == ""
\* a GDBusMethodInvocation: the method, the sender and, to tell two calls of
\* one method by one sender apart, n
NoInv == [m |-> "", s |-> "", n |-> 0]
Inv(m, s) == [m |-> m, s |-> s, n |-> 0]
Serials == {0, 1}
NoSession == [sender |-> "", username |-> "", invocation |-> NoInv,
              verify_status_reported |-> FALSE]

FP_FINGER_UNKNOWN == 0
FP_FINGER_FIRST == 1
FP_FINGER_LAST == 10
FINGERS_NAMES == <<"left-thumb", "left-index-finger", "left-middle-finger",
                   "left-ring-finger", "left-little-finger", "right-thumb",
                   "right-index-finger", "right-middle-finger",
                   "right-ring-finger", "right-little-finger">>

RetryErrors == {"RETRY_GENERAL", "RETRY_TOO_SHORT", "RETRY_CENTER_FINGER",
                "RETRY_REMOVE_FINGER"}
\* the errors the modelled driver returns
DriverRetry == {"RETRY_GENERAL", "RETRY_TOO_SHORT"}
DriverErrors == {"PROTO", "DATA_NOT_FOUND", "GENERAL"}

(***************************************************************************)
(* Outputs of a step                                                       *)
(***************************************************************************)
\* t: reply | signal | polkit | getuser.  by: which function sent a reply.
\* id: the n of the invocation a reply completes.
Reply(m, s, r, by) ==
  [t |-> "reply", n |-> m, s |-> s, v |-> r, by |-> by, done |-> FALSE, data |-> {},
   id |-> 0]
ReplyData(m, s, data, by) ==
  [t |-> "reply", n |-> m, s |-> s, v |-> OK, by |-> by, done |-> FALSE, data |-> data,
   id |-> 0]
\* g_dbus_method_invocation_return_* on a stored invocation
ReplyTo(invocation, r, by) ==
  [Reply(invocation.m, invocation.s, r, by) EXCEPT !.id = invocation.n]
Signal(n, v, done) ==
  [t |-> "signal", n |-> n, s |-> "", v |-> v, by |-> "", done |-> done, data |-> {},
   id |-> 0]
Query(a, s, yes) ==
  [t |-> "polkit", n |-> a, s |-> s, v |-> IF yes THEN "yes" ELSE "no", by |-> "",
   done |-> FALSE, data |-> {}, id |-> 0]
Lookup(s, ok) ==
  [t |-> "getuser", n |-> "GetConnectionUnixUser", s |-> s,
   v |-> IF ok THEN pw_name(s) ELSE "error", by |-> "", done |-> FALSE, data |-> {},
   id |-> 0]

(***************************************************************************)
(* Pure helpers of device.c                                                *)
(***************************************************************************)
fp_finger_to_name(finger) ==
  IF finger = FP_FINGER_UNKNOWN THEN "any"
  ELSE IF finger < FP_FINGER_FIRST \/ finger > FP_FINGER_LAST THEN "NULL"
  ELSE FINGERS_NAMES[finger]

finger_name_to_fp_finger(finger_name) ==
  IF finger_name = "" \/ finger_name = "any" THEN FP_FINGER_UNKNOWN
  ELSE IF \E i \in FP_FINGER_FIRST..FP_FINGER_LAST : FINGERS_NAMES[i] = finger_name
       THEN CHOOSE i \in FP_FINGER_FIRST..FP_FINGER_LAST : FINGERS_NAMES[i] = finger_name
       ELSE FP_FINGER_UNKNOWN

verify_result_to_name(match, error) ==
  IF error = OK THEN (IF match THEN "verify-match" ELSE "verify-no-match")
  ELSE IF error \in RetryErrors
       THEN CASE error = "RETRY_TOO_SHORT" -> "verify-swipe-too-short"
              [] error = "RETRY_CENTER_FINGER" -> "verify-finger-not-centered"
              [] error = "RETRY_REMOVE_FINGER" -> "verify-remove-and-retry"
              [] OTHER -> "verify-retry-scan"
       ELSE IF error = "PROTO" THEN "verify-disconnected"
       ELSE IF error \in {"CANCELLED", "DATA_NOT_FOUND"} THEN "verify-no-match"
       ELSE "verify-unknown-error"

enroll_result_to_name(completed, enrolled, error) ==
  IF error = OK
  THEN (IF ~completed THEN "enroll-stage-passed"
        ELSE IF enrolled THEN "enroll-completed" ELSE "enroll-failed")
  ELSE IF error \in RetryErrors
       THEN CASE error = "RETRY_TOO_SHORT" -> "enroll-swipe-too-short"
              [] error = "RETRY_CENTER_FINGER" -> "enroll-finger-not-centered"
              [] error = "RETRY_REMOVE_FINGER" -> "enroll-remove-and-retry"
              [] OTHER -> "enroll-retry-scan"
       ELSE IF error = "PROTO" THEN "enroll-disconnected"
       ELSE IF error = "DATA_FULL" THEN "enroll-data-full"
       ELSE IF error = "CANCELLED" THEN "enroll-failed"
       ELSE "enroll-unknown-error"

\* FprintDevicePermission, in ascending flag value
PermissionOrder == <<"verify", "enroll", "setusername">>

get_permissions_for_invocation(m) ==
  CASE m = "Claim" -> {"verify", "enroll"}
    [] m \in {"DeleteEnrolledFinger", "DeleteEnrolledFingers",
              "DeleteEnrolledFingers2", "EnrollStart"} -> {"enroll"}
    [] m \in {"ListEnrolledFingers", "VerifyStart"} -> {"verify"}
    [] OTHER -> {}

\* variant: ListEnrolledFingers asks for the claim
get_claim_state_list_claimed(m) ==
  CASE m = "Claim" -> "STATE_UNCLAIMED"
    [] m = "DeleteEnrolledFingers" -> "STATE_AUTO_CLAIM"
    [] OTHER -> "STATE_CLAIMED"

get_claim_state_for_invocation(m) ==
  CASE m = "Claim" -> "STATE_UNCLAIMED"
    [] m = "DeleteEnrolledFingers" -> "STATE_AUTO_CLAIM"
    [] m = "ListEnrolledFingers" -> "STATE_ANYTIME"
    [] OTHER -> "STATE_CLAIMED"

(***************************************************************************)
(* The working state of a handler: the fields a handler reads and writes,  *)
(* threaded through the C functions it calls.                              *)
(*   p: priv   fp: the FpDevice   host: the store   out: outputs so far    *)
(*   ab: aborted   completed: stoppable_action_completed ran               *)
(*   started: an operation was started by this step, or a handler that     *)
(*            waited for one went on (observer)                            *)
(*   push: the nested main-loop iteration the handler enters               *)
(***************************************************************************)
\* action: the Action the handler found when it began to wait (observer)
NoFrame == [kind |-> "", inv |-> NoInv, action |-> ""]
Frame(kind, inv, action) == [kind |-> kind, inv |-> inv, action |-> action]

Cur == [p |-> priv, fp |-> fp, host |-> host, out |-> <<>>, ab |-> FALSE,
        completed |-> FALSE, started |-> "none", push |-> NoFrame]

Emit(st, o) == [st EXCEPT !.out = Append(@, o)]
Abort(st) == [st EXCEPT !.ab = TRUE]

HasSession(p) == p.session.sender # ""
HasFeature(f) == f \in env.features

\* fp_device_verify / identify / enroll / open / close: libfprint takes the
\* task; a task started with a cancelled GCancellable never reports a match.
\* misuse records a start while another task runs (FP_DEVICE_ERROR_BUSY).
StartTask(st, task, cancellable) ==
  [st EXCEPT !.fp = [is_open |-> @.is_open,
                     template |-> {},
                     gallery |-> {},
                     task |-> task,
                     reported |-> IF cancellable = "cancelled" THEN "dead" ELSE "none",
                     misuse |-> @.misuse \/ @.task # "none"
                                \/ (task # "open" /\ ~@.is_open)]]

\* fp_device_identify with the prints of gallery
Identify(st, task, gallery, cancellable) ==
  [StartTask(st, task, cancellable) EXCEPT !.fp.gallery = gallery]

\* fp_device_close_sync: libfprint always considers the device closed
fp_device_close_sync(st) ==
  [st EXCEPT !.fp.is_open = FALSE, !.fp.misuse = @ \/ st.fp.task # "none"]

session_data_set_new(p, sender, username) ==
  [p EXCEPT !.session = IF sender = "" THEN NoSession
                        ELSE [sender |-> sender, username |-> username,
                              invocation |-> NoInv,
                              verify_status_reported |-> FALSE]]

\* variant: a Claim is not tested against the existing Session
check_claimed_claim_untested(p, m, s) ==
  LET requested == get_claim_state_for_invocation(m)
      state == IF requested = "STATE_AUTO_CLAIM"
               THEN (IF HasSession(p) THEN "STATE_CLAIMED" ELSE "STATE_UNCLAIMED")
               ELSE requested
  IN IF requested = "STATE_ANYTIME" THEN OK
     ELSE IF state = "STATE_UNCLAIMED" THEN OK
     ELSE IF ~HasSession(p) THEN "ClaimDevice"
     ELSE IF s # p.session.sender \/ p.session.invocation # NoInv
          THEN "AlreadyInUse"
     ELSE OK

fprint_device_check_claimed(p, m, s) ==
  LET requested == get_claim_state_for_invocation(m)
      state == IF requested = "STATE_AUTO_CLAIM"
               THEN (IF HasSession(p) THEN "STATE_CLAIMED" ELSE "STATE_UNCLAIMED")
               ELSE requested
  IN IF requested = "STATE_ANYTIME" THEN OK
     ELSE IF state = "STATE_UNCLAIMED"
          THEN (IF ~HasSession(p) THEN OK ELSE "AlreadyInUse")
     ELSE IF ~HasSession(p) THEN "ClaimDevice"
     ELSE IF s # p.session.sender \/ p.session.invocation # NoInv
          THEN "AlreadyInUse"
     ELSE OK

fprint_device_add_client(p, sender) ==
  [p EXCEPT !.clients = @ \cup {sender}]

\* variant: the busy test always passes
can_start_action_untested(p) == OK

can_start_action(p) ==
  IF p.current_action = "ACTION_NONE" THEN OK ELSE "AlreadyInUse"

\* variant: a pending stop invocation is not looked at
can_stop_action_pending_untested(p, action) ==
  LET action_matches ==
        IF p.current_action \in {"ACTION_IDENTIFY", "ACTION_VERIFY"}
        THEN action \in {"ACTION_VERIFY", "ACTION_IDENTIFY"}
        ELSE p.current_action = action
  IN IF action_matches THEN OK
     ELSE IF p.current_action # "ACTION_NONE" THEN "AlreadyInUse"
     ELSE "NoActionInProgress"

can_stop_action(p, action) ==
  LET action_matches ==
        IF p.current_action \in {"ACTION_IDENTIFY", "ACTION_VERIFY"}
        THEN action \in {"ACTION_VERIFY", "ACTION_IDENTIFY"}
        ELSE p.current_action = action
  IN IF action_matches /\ p.current_cancel_invocation = NoInv THEN OK
     ELSE IF p.current_action # "ACTION_NONE" \/ action_matches THEN "AlreadyInUse"
     ELSE "NoActionInProgress"

\* session->verify_status_reported = v, a NULL dereference without a session
SetReported(st, v) ==
  IF ~HasSession(st.p) THEN Abort(st)
  ELSE [st EXCEPT !.p.session.verify_status_reported = v]

stoppable_action_completed(st) ==
  LET p == st.p
      st1 ==
        IF p.current_cancel_invocation # NoInv
        THEN IF p.current_action \in {"ACTION_VERIFY", "ACTION_IDENTIFY", "ACTION_ENROLL"}
             THEN SetReported(
                    [Emit(st, ReplyTo(p.current_cancel_invocation, OK,
                                      "stoppable_action_completed"))
                       EXCEPT !.p.current_cancel_invocation = NoInv,
                              !.p.current_action = "ACTION_NONE"], FALSE)
             ELSE Abort(st)
        ELSE IF p.current_cancellable = "cancelled"
             THEN SetReported([st EXCEPT !.p.current_action = "ACTION_NONE"], FALSE)
             ELSE st
  IN [st1 EXCEPT !.p.current_cancellable = "null", !.completed = TRUE]

\* variant: the Stop waits for a completion although the operation has ended
stoppable_action_stop_waits(st, invocation) ==
  IF st.p.current_cancel_invocation # NoInv THEN Abort(st)
  ELSE LET st1 == [st EXCEPT !.p.current_cancel_invocation = invocation]
       IN IF st.p.current_cancellable # "null"
          THEN [st1 EXCEPT !.p.current_cancellable = "cancelled"]
          ELSE st1

\* variant: the Stop drops the token instead of cancelling it
stoppable_action_stop_drops_token(st, invocation) ==
  IF st.p.current_cancel_invocation # NoInv THEN Abort(st)
  ELSE LET st1 == [st EXCEPT !.p.current_cancel_invocation = invocation]
       IN IF st.p.current_cancellable # "null"
          THEN [st1 EXCEPT !.p.current_cancellable = "null"]
          ELSE stoppable_action_completed(st1)

stoppable_action_stop(st, invocation) ==
  IF st.p.current_cancel_invocation # NoInv THEN Abort(st)
  ELSE LET st1 == [st EXCEPT !.p.current_cancel_invocation = invocation]
       IN IF st.p.current_cancellable # "null"
          THEN [st1 EXCEPT !.p.current_cancellable = "cancelled"]
          ELSE stoppable_action_completed(st1)

\* variant: a final status is emitted although one was reported already
report_verify_status_unguarded(st, match, error) ==
  LET result == verify_result_to_name(match, error)
      done == error = OK \/ error \notin RetryErrors
  IN IF ~HasSession(st.p) THEN Abort(st)
     ELSE LET st1 == Emit(st, Signal("VerifyStatus", result, done))
          IN IF done THEN SetReported(st1, TRUE) ELSE st1

\* variant: a cancellation is reported even after the final status
report_verify_status_reports_cancel(st, match, error) ==
  LET result == verify_result_to_name(match, error)
      done == error = OK \/ error \notin RetryErrors
  IN IF ~HasSession(st.p) THEN Abort(st)
     ELSE IF done /\ st.p.session.verify_status_reported /\ error # "CANCELLED" THEN st
     ELSE LET st1 == Emit(st, Signal("VerifyStatus", result, done))
          IN IF done THEN SetReported(st1, TRUE) ELSE st1

report_verify_status(st, match, error) ==
  LET result == verify_result_to_name(match, error)
      done == error = OK \/ error \notin RetryErrors
  IN IF ~HasSession(st.p) THEN Abort(st)
     ELSE IF done /\ st.p.session.verify_status_reported THEN st
     ELSE LET st1 == Emit(st, Signal("VerifyStatus", result, done))
          IN IF done THEN SetReported(st1, TRUE) ELSE st1

\* variant: the latch also stops the reconciliation after data-not-found
check_local_storage_latched(st, found_match, error, list_ok, device_prints, failing) ==
  IF st.p.current_action \notin {"ACTION_VERIFY", "ACTION_IDENTIFY"} THEN st
  ELSE IF ~HasFeature("STORAGE_LIST") THEN st
  ELSE IF error \notin {OK, "DATA_NOT_FOUND"} \/ st.p.local_storage_checked
          \/ (error = OK /\ found_match)
       THEN st
  ELSE LET st1 == [st EXCEPT !.p.local_storage_checked = TRUE]
       IN IF ~list_ok THEN st1
          ELSE [st1 EXCEPT !.host = {h \in @ : h \in device_prints \/ h \in failing}]

\* variant: a match starts the reconciliation as well
check_local_storage_on_match(st, found_match, error, list_ok, device_prints, failing) ==
  IF st.p.current_action \notin {"ACTION_VERIFY", "ACTION_IDENTIFY"} THEN st
  ELSE IF ~HasFeature("STORAGE_LIST") THEN st
  ELSE IF error # "DATA_NOT_FOUND" /\ (error # OK \/ st.p.local_storage_checked)
       THEN st
  ELSE LET st1 == [st EXCEPT !.p.local_storage_checked = TRUE]
       IN IF ~list_ok THEN st1
          ELSE [st1 EXCEPT !.host = {h \in @ : h \in device_prints \/ h \in failing}]

\* list_ok, device_prints: what fp_device_list_prints_sync returns;
\* failing: the host prints whose store.print_data_delete returns non-zero.
check_local_storage(st, found_match, error, list_ok, device_prints, failing) ==
  IF st.p.current_action \notin {"ACTION_VERIFY", "ACTION_IDENTIFY"} THEN st
  ELSE IF ~HasFeature("STORAGE_LIST") THEN st
  ELSE IF error # "DATA_NOT_FOUND" /\ (error # OK \/ st.p.local_storage_checked \/ found_match)
       THEN st
  ELSE LET st1 == [st EXCEPT !.p.local_storage_checked = TRUE]
       IN IF ~list_ok THEN st1
          ELSE [st1 EXCEPT !.host = {h \in @ : h \in device_prints \/ h \in failing}]

(***************************************************************************)
(* Observer of the current verify/identify/enroll operation: counts the    *)
(* signals the steps put on the bus since the last successful Start.       *)
(***************************************************************************)
IsSelected(o) == o.t = "signal" /\ o.n = "VerifyFingerSelected"
IsStatus(o) == o.t = "signal" /\ o.n = "VerifyStatus"
IsDone(o) == o.t = "signal" /\ o.n \in {"VerifyStatus", "EnrollStatus"} /\ o.done
Min2(n) == IF n > 2 THEN 2 ELSE n

SelectedAt(seq) == {i \in 1..Len(seq) : IsSelected(seq[i])}
StatusAt(seq) == {i \in 1..Len(seq) : IsStatus(seq[i])}
DoneAt(seq) == {i \in 1..Len(seq) : IsDone(seq[i])}

IsStartOk(o) == o.t = "reply" /\ o.n \in {"VerifyStart", "EnrollStart"} /\ o.v = OK

Observe(o, st) ==
  LET fresh == \/ \E i \in 1..Len(st.out) : IsStartOk(st.out[i])
               \/ st.started \in {"release", "vanished"}
      base == IF fresh
              THEN [kind |-> st.started, sel |-> 0, done |-> 0,
                    sel_first |-> TRUE, completed |-> FALSE]
              ELSE o
  IN [kind |-> base.kind,
      sel |-> Min2(base.sel + Cardinality(SelectedAt(st.out))),
      done |-> Min2(base.done + Cardinality(DoneAt(st.out))),
      sel_first |-> base.sel_first
                    /\ \A j \in StatusAt(st.out) :
                         base.sel > 0 \/ \E i \in SelectedAt(st.out) : i < j,
      completed |-> base.completed \/ st.completed]

\* a handler may enter one more nested main-loop iteration
CanPush(stk) ==
  \/ Len(stk) < MaxStack
  \/ /\ stk # <<>> /\ Len(stk) < MaxStack + MaxSettleNest
     /\ stk[Len(stk)].kind = "verify_stop"
     /\ priv.verify_stop_wait_timeout_id # 0
     /\ priv.current_cancel_invocation = stk[Len(stk)].inv

\* the handler's effects become the next state
Commit(st, stk) ==
  /\ st.push # NoFrame => CanPush(stk)
  /\ priv' = st.p
  /\ fp' = st.fp
  /\ host' = st.host
  /\ out' = st.out
  /\ aborted' = st.ab
  /\ op' = Observe(op, st)
  /\ stack' = IF st.push # NoFrame THEN Append(stk, st.push) ELSE stk

(***************************************************************************)
(* Authorization (the g-authorize-method handler)                          *)
(***************************************************************************)
\* grant: the polkit actions the authority authorizes for this subject now
RECURSIVE PolkitFrom(_, _, _, _)
PolkitFrom(i, permissions, s, grant) ==
  IF i > Len(PermissionOrder) THEN [out |-> <<>>, ok |-> FALSE]
  ELSE LET a == PermissionOrder[i]
       IN IF a \notin permissions THEN PolkitFrom(i + 1, permissions, s, grant)
          ELSE IF a \in grant THEN [out |-> <<Query(a, s, TRUE)>>, ok |-> TRUE]
          ELSE LET rest == PolkitFrom(i + 1, permissions, s, grant)
               IN [out |-> <<Query(a, s, FALSE)>> \o rest.out, ok |-> rest.ok]

\* variant: the required permission of the lowest value decides
check_polkit_lowest_decides(permissions, s, grant) ==
  IF permissions = {} THEN [out |-> <<>>, ok |-> TRUE]
  ELSE LET a == CHOOSE x \in permissions :
                  \A y \in permissions :
                    (CHOOSE i \in 1..Len(PermissionOrder) : PermissionOrder[i] = x)
                      <= (CHOOSE i \in 1..Len(PermissionOrder) : PermissionOrder[i] = y)
       IN [out |-> <<Query(a, s, a \in grant)>>, ok |-> a \in grant]

fprint_device_check_polkit_for_permissions(permissions, s, grant) ==
  IF permissions = {} THEN [out |-> <<>>, ok |-> TRUE]
  ELSE PolkitFrom(1, permissions, s, grant)

\* variant: the name asked for is taken without asking polkit
check_for_username_unasked(s, username, lookup_ok, grant) ==
  IF ~lookup_ok THEN [out |-> <<Lookup(s, FALSE)>>, user |-> "", error |-> "Internal"]
  ELSE [out |-> <<Lookup(s, TRUE)>>,
        user |-> IF username = "" THEN pw_name(s) ELSE username, error |-> OK]

\* returns the user attached to the invocation ("" with error set)
fprint_device_check_for_username(s, username, lookup_ok, grant) ==
  IF ~lookup_ok THEN [out |-> <<Lookup(s, FALSE)>>, user |-> "", error |-> "Internal"]
  ELSE IF username = "" \/ username = pw_name(s)
       THEN [out |-> <<Lookup(s, TRUE)>>, user |-> pw_name(s), error |-> OK]
  ELSE LET r == fprint_device_check_polkit_for_permissions({"setusername"}, s, grant)
       IN [out |-> <<Lookup(s, TRUE)>> \o r.out,
           user |-> IF r.ok THEN username ELSE "",
           error |-> IF r.ok THEN OK ELSE "PermissionDenied"]

NeedsUserAuth(m) == m \in {"Claim", "DeleteEnrolledFingers", "ListEnrolledFingers"}

\* variant: the claim state is tested after the identity and polkit checks
authorization_claim_state_last(p, m, s, arg, lookup_ok, grant) ==
  LET claimed == fprint_device_check_claimed(p, m, s)
      ua == IF NeedsUserAuth(m)
            THEN fprint_device_check_for_username(s, arg, lookup_ok, grant)
            ELSE [out |-> <<>>, user |-> "", error |-> OK]
      pk == fprint_device_check_polkit_for_permissions(
              get_permissions_for_invocation(m), s, grant)
  IN IF ua.error # OK
     THEN [out |-> ua.out \o <<Reply(m, s, ua.error, "action_authorization_handler")>>,
           error |-> ua.error, user |-> ""]
     ELSE IF ~pk.ok
     THEN [out |-> ua.out \o pk.out
                    \o <<Reply(m, s, "PermissionDenied", "action_authorization_handler")>>,
           error |-> "PermissionDenied", user |-> ""]
     ELSE IF claimed # OK
     THEN [out |-> ua.out \o pk.out
                    \o <<Reply(m, s, claimed, "action_authorization_handler")>>,
           error |-> claimed, user |-> ""]
     ELSE [out |-> ua.out \o pk.out, error |-> OK, user |-> ua.user]

\* result: the outputs, the error replied ("" when authorized), the user attached
action_authorization_handler(p, m, s, arg, lookup_ok, grant) ==
  LET claimed == fprint_device_check_claimed(p, m, s)
      ua == IF NeedsUserAuth(m)
            THEN fprint_device_check_for_username(s, arg, lookup_ok, grant)
            ELSE [out |-> <<>>, user |-> "", error |-> OK]
      pk == fprint_device_check_polkit_for_permissions(
              get_permissions_for_invocation(m), s, grant)
  IN IF claimed # OK
     THEN [out |-> <<Reply(m, s, claimed, "action_authorization_handler")>>,
           error |-> claimed, user |-> ""]
     ELSE IF ua.error # OK
     THEN [out |-> ua.out \o <<Reply(m, s, ua.error, "action_authorization_handler")>>,
           error |-> ua.error, user |-> ""]
     ELSE IF ~pk.ok
     THEN [out |-> ua.out \o pk.out
                    \o <<Reply(m, s, "PermissionDenied", "action_authorization_handler")>>,
           error |-> "PermissionDenied", user |-> ""]
     ELSE [out |-> ua.out \o pk.out, error |-> OK, user |-> ua.user]

(***************************************************************************)
(* Claim / Release / client vanished                                       *)
(***************************************************************************)
auto_device_action_unset(st) == [st EXCEPT !.p.current_action = "ACTION_NONE"]

\* variant: the claimant's bus name is not watched
fprint_device_claim_unwatched(st, a) ==
  LET err == fprint_device_check_claimed(st.p, "Claim", a.s)
  IN IF err # OK THEN Emit(st, Reply("Claim", a.s, err, "fprint_device_claim"))
     ELSE IF a.user = "" \/ ~(a.arg = "" \/ a.user = a.arg) THEN Abort(st)
     ELSE LET p1 == session_data_set_new(st.p, a.s, a.user)
              p2 == [p1 EXCEPT !.session.invocation = Inv("Claim", a.s),
                               !.current_action = "ACTION_OPEN"]
          IN StartTask([st EXCEPT !.p = p2], "open", "null")

\* a: the invocation [m, s, arg] and the user the authorization attached to it
fprint_device_claim(st, a) ==
  LET err == fprint_device_check_claimed(st.p, "Claim", a.s)
  IN IF err # OK THEN Emit(st, Reply("Claim", a.s, err, "fprint_device_claim"))
     ELSE IF a.user = "" \/ ~(a.arg = "" \/ a.user = a.arg) THEN Abort(st)
     ELSE LET p1 == session_data_set_new(fprint_device_add_client(st.p, a.s), a.s, a.user)
              p2 == [p1 EXCEPT !.session.invocation = Inv("Claim", a.s),
                               !.current_action = "ACTION_OPEN"]
          IN StartTask([st EXCEPT !.p = p2], "open", "null")

\* variant: the Session outlives a failed open
dev_open_cb_keeps_session(st, ok) ==
  IF ~HasSession(st.p) THEN Abort(st)
  ELSE LET inv == st.p.session.invocation
           st1 == [st EXCEPT !.fp.task = "none", !.fp.reported = "none", !.fp.is_open = ok,
                             !.p.session.invocation = NoInv]
           st2 == IF ~ok
                  THEN Emit(st1, Reply(inv.m, inv.s, "Internal", "dev_open_cb"))
                  ELSE Emit(st1, Reply(inv.m, inv.s, OK, "dev_open_cb"))
       IN auto_device_action_unset(st2)

dev_open_cb(st, ok) ==
  IF ~HasSession(st.p) THEN Abort(st)
  ELSE LET inv == st.p.session.invocation
           st1 == [st EXCEPT !.fp.task = "none", !.fp.reported = "none", !.fp.is_open = ok,
                             !.p.session.invocation = NoInv]
           st2 == IF ~ok
                  THEN [Emit(st1, Reply(inv.m, inv.s, "Internal", "dev_open_cb"))
                          EXCEPT !.p = session_data_set_new(@, "", "")]
                  ELSE Emit(st1, Reply(inv.m, inv.s, OK, "dev_open_cb"))
       IN auto_device_action_unset(st2)

dev_close_cb(st, ok) ==
  IF ~HasSession(st.p) THEN Abort(st)
  ELSE LET inv == st.p.session.invocation
           st1 == [st EXCEPT !.fp.task = "none", !.fp.reported = "none", !.fp.is_open = FALSE,
                             !.p = session_data_set_new(@, "", "")]
           st2 == Emit(st1, Reply(inv.m, inv.s, IF ok THEN OK ELSE "Internal",
                                  "dev_close_cb"))
       IN auto_device_action_unset(st2)

\* variant: the token is left as it is
g_cancellable_cancel_skipped(st) == st

\* g_cancellable_cancel (priv->current_cancellable)
g_cancellable_cancel(st) ==
  IF st.p.current_cancellable = "live"
  THEN [st EXCEPT !.p.current_cancellable = "cancelled"] ELSE st

\* fprint_device_release after its wait loop
release_finish(st, inv) ==
  IF ~HasSession(st.p) THEN Emit(st, Reply(inv.m, inv.s, OK, "fprint_device_release"))
  ELSE StartTask([st EXCEPT !.p.session.invocation = inv,
                            !.p.current_action = "ACTION_CLOSE"], "close", "null")

fprint_device_release(st, s) ==
  LET err == fprint_device_check_claimed(st.p, "Release", s)
      inv == Inv("Release", s)
  IN IF err # OK THEN Emit(st, Reply("Release", s, err, "fprint_device_release"))
     ELSE IF st.p.current_cancellable # "null"
          THEN LET st1 == g_cancellable_cancel(st)
               IN IF st1.p.current_action # "ACTION_NONE"
                  THEN [st1 EXCEPT !.push = Frame("release", inv, st1.p.current_action)]
                  ELSE release_finish(st1, inv)
     ELSE release_finish(st, inv)

\* variant: the Session is kept when the claimant has gone
vanished_finish_keeps_session(st, name) ==
  LET st1 == IF HasSession(st.p) THEN fp_device_close_sync(st) ELSE st
  IN [st1 EXCEPT !.p.clients = @ \ {name}]

\* _fprint_device_client_vanished after its wait loop
vanished_finish(st, name) ==
  LET st1 == IF HasSession(st.p) THEN fp_device_close_sync(st) ELSE st
  IN [st1 EXCEPT !.p = [session_data_set_new(@, "", "")
                          EXCEPT !.clients = @ \ {name}]]

fprint_device_client_vanished(st, name) ==
  IF HasSession(st.p) /\ st.p.session.sender = name
  THEN LET st1 == g_cancellable_cancel(st)
           st2 == IF st1.p.current_cancellable = "null"
                     /\ st1.p.current_action \in {"ACTION_VERIFY", "ACTION_IDENTIFY",
                                                  "ACTION_ENROLL"}
                  THEN [st1 EXCEPT !.p.current_action = "ACTION_NONE"]
                  ELSE st1
       IN IF st2.p.current_action # "ACTION_NONE"
          THEN [st2 EXCEPT !.push = Frame("vanished", Inv("", name),
                                          st2.p.current_action)]
          ELSE vanished_finish(st2, name)
  ELSE [st EXCEPT !.p.clients = @ \ {name}]

(***************************************************************************)
(* The store                                                               *)
(***************************************************************************)
FpPrint(user, finger) == [user |-> user, finger |-> finger]
load_user_prints(h, username) == {x \in h : x.user = username}
\* store.discover_users: the users that have a print
discover_users(h) == {x.user : x \in h}
load_all_prints(h) == UNION {load_user_prints(h, user) : user \in discover_users(h)}
\* store.print_data_load: {} when there is no such print
print_data_load(h, finger, username) == {x \in h : x.user = username /\ x.finger = finger}
user_has_print_enrolled(h, user, finger) ==
  IF finger = FP_FINGER_UNKNOWN THEN load_user_prints(h, user) # {}
  ELSE print_data_load(h, finger, user) # {}

\* variant: the prints stay in the store
delete_enrolled_fingers_kept(st, user, finger, dev_ok, failing) ==
  IF ~user_has_print_enrolled(st.host, user, finger)
  THEN [st |-> st, error |-> "NoEnrolledPrints"]
  ELSE [st |-> st, error |-> OK]

\* variant: a failure of the reader ends the deletion
delete_enrolled_fingers_device_first(st, user, finger, dev_ok, failing) ==
  LET targets == IF finger = FP_FINGER_UNKNOWN THEN load_user_prints(st.host, user)
                 ELSE print_data_load(st.host, finger, user)
      device_error == HasFeature("STORAGE")
                      /\ ~(dev_ok /\ st.fp.is_open /\ st.fp.task = "none")
      kept == targets \cap failing
  IN IF ~user_has_print_enrolled(st.host, user, finger)
     THEN [st |-> st, error |-> "NoEnrolledPrints"]
     ELSE IF device_error THEN [st |-> st, error |-> "PrintsNotDeletedFromDevice"]
     ELSE [st |-> [st EXCEPT !.host = @ \ (targets \ failing)],
           error |-> IF kept # {} THEN "PrintsNotDeleted" ELSE OK]

\* dev_ok: fp_device_delete_print_sync succeeds on an open, idle device;
\* failing: the prints whose store.print_data_delete returns non-zero.
delete_enrolled_fingers(st, user, finger, dev_ok, failing) ==
  LET targets == IF finger = FP_FINGER_UNKNOWN THEN load_user_prints(st.host, user)
                 ELSE print_data_load(st.host, finger, user)
      device_error == HasFeature("STORAGE")
                      /\ ~(dev_ok /\ st.fp.is_open /\ st.fp.task = "none")
      kept == targets \cap failing
  IN IF ~user_has_print_enrolled(st.host, user, finger)
     THEN [st |-> st, error |-> "NoEnrolledPrints"]
     ELSE [st |-> [st EXCEPT !.host = @ \ (targets \ failing)],
           error |-> IF kept # {} THEN "PrintsNotDeleted"
                     ELSE IF device_error THEN "PrintsNotDeletedFromDevice"
                     ELSE OK]

(***************************************************************************)
(* Verify / identify                                                       *)
(***************************************************************************)
\* variant: the selected finger is not announced
VerifyStartOutputs_unannounced(st, s, name) ==
  Emit(st, Reply("VerifyStart", s, OK, "fprint_device_verify_start"))

\* the tail of fprint_device_verify_start: complete the invocation, then
\* emit VerifyFingerSelected
VerifyStartOutputs(st, s, name) ==
  Emit(Emit(st, Reply("VerifyStart", s, OK, "fprint_device_verify_start")),
       Signal("VerifyFingerSelected", name, FALSE))

\* variant: the identify gallery holds the first print only
verify_start_gallery_first(st, s, finger_name, first) ==
  LET m == "VerifyStart"
      by == "fprint_device_verify_start"
      arg == finger_name_to_fp_finger(finger_name)
      err == fprint_device_check_claimed(st.p, m, s)
      busy == can_start_action(st.p)
      gallery == load_user_prints(st.host, st.p.session.username)
      finger == IF arg = FP_FINGER_UNKNOWN /\ Cardinality(gallery) = 1
                THEN (CHOOSE x \in gallery : TRUE).finger ELSE arg
      print == IF arg = FP_FINGER_UNKNOWN THEN {first}
               ELSE print_data_load(st.host, finger, st.p.session.username)
      selected == IF arg = FP_FINGER_UNKNOWN THEN first.finger ELSE finger
  IN IF err # OK THEN Emit(st, Reply(m, s, err, by))
     ELSE IF busy # OK THEN Emit(st, Reply(m, s, busy, by))
     ELSE IF arg = FP_FINGER_UNKNOWN /\ gallery = {}
          THEN Emit(st, Reply(m, s, "NoEnrolledPrints", by))
     ELSE IF HasFeature("IDENTIFY") /\ finger = FP_FINGER_UNKNOWN
          THEN LET st1 == [st EXCEPT !.p.current_action = "ACTION_IDENTIFY",
                                     !.p.current_cancellable = "live",
                                     !.p.identify_data = {first},
                                     !.started = "verify"]
               IN VerifyStartOutputs(Identify(st1, "identify", {first}, "live"), s,
                                     fp_finger_to_name(finger))
     ELSE IF print = {} THEN Emit(st, Reply(m, s, "NoEnrolledPrints", by))
     ELSE LET st1 == [st EXCEPT !.p.current_action = "ACTION_VERIFY",
                                !.p.current_cancellable = "live",
                                !.p.verify_data = print,
                                !.started = "verify"]
          IN VerifyStartOutputs(StartTask(st1, "verify", "live"), s,
                                fp_finger_to_name(selected))

\* variant: the finger asked for is announced
verify_start_announces_argument(st, s, finger_name, first) ==
  LET m == "VerifyStart"
      by == "fprint_device_verify_start"
      arg == finger_name_to_fp_finger(finger_name)
      err == fprint_device_check_claimed(st.p, m, s)
      busy == can_start_action(st.p)
      gallery == load_user_prints(st.host, st.p.session.username)
      finger == IF arg = FP_FINGER_UNKNOWN /\ Cardinality(gallery) = 1
                THEN (CHOOSE x \in gallery : TRUE).finger ELSE arg
      print == IF arg = FP_FINGER_UNKNOWN THEN {first}
               ELSE print_data_load(st.host, finger, st.p.session.username)
  IN IF err # OK THEN Emit(st, Reply(m, s, err, by))
     ELSE IF busy # OK THEN Emit(st, Reply(m, s, busy, by))
     ELSE IF arg = FP_FINGER_UNKNOWN /\ gallery = {}
          THEN Emit(st, Reply(m, s, "NoEnrolledPrints", by))
     ELSE IF HasFeature("IDENTIFY") /\ finger = FP_FINGER_UNKNOWN
          THEN LET st1 == [st EXCEPT !.p.current_action = "ACTION_IDENTIFY",
                                     !.p.current_cancellable = "live",
                                     !.p.identify_data = gallery,
                                     !.started = "verify"]
               IN VerifyStartOutputs(Identify(st1, "identify", gallery, "live"), s,
                                     fp_finger_to_name(finger))
     ELSE IF print = {} THEN Emit(st, Reply(m, s, "NoEnrolledPrints", by))
     ELSE LET st1 == [st EXCEPT !.p.current_action = "ACTION_VERIFY",
                                !.p.current_cancellable = "live",
                                !.p.verify_data = print,
                                !.started = "verify"]
          IN VerifyStartOutputs(StartTask(st1, "verify", "live"), s,
                                fp_finger_to_name(arg))

\* first: the print the store lists first (g_ptr_array_index (gallery, 0))
fprint_device_verify_start(st, s, finger_name, first) ==
  LET m == "VerifyStart"
      by == "fprint_device_verify_start"
      arg == finger_name_to_fp_finger(finger_name)
      err == fprint_device_check_claimed(st.p, m, s)
      busy == can_start_action(st.p)
      gallery == load_user_prints(st.host, st.p.session.username)
      finger == IF arg = FP_FINGER_UNKNOWN /\ Cardinality(gallery) = 1
                THEN (CHOOSE x \in gallery : TRUE).finger ELSE arg
      print == IF arg = FP_FINGER_UNKNOWN THEN {first}
               ELSE print_data_load(st.host, finger, st.p.session.username)
      selected == IF arg = FP_FINGER_UNKNOWN THEN first.finger ELSE finger
  IN IF err # OK THEN Emit(st, Reply(m, s, err, by))
     ELSE IF busy # OK THEN Emit(st, Reply(m, s, busy, by))
     ELSE IF arg = FP_FINGER_UNKNOWN /\ gallery = {}
          THEN Emit(st, Reply(m, s, "NoEnrolledPrints", by))
     ELSE IF HasFeature("IDENTIFY") /\ finger = FP_FINGER_UNKNOWN
          THEN LET st1 == [st EXCEPT !.p.current_action = "ACTION_IDENTIFY",
                                     !.p.current_cancellable = "live",
                                     !.p.identify_data = gallery,
                                     !.started = "verify"]
               IN VerifyStartOutputs(Identify(st1, "identify", gallery, "live"), s,
                                     fp_finger_to_name(finger))
     ELSE IF print = {} THEN Emit(st, Reply(m, s, "NoEnrolledPrints", by))
     ELSE LET st1 == [st EXCEPT !.p.current_action = "ACTION_VERIFY",
                                !.p.current_cancellable = "live",
                                !.p.verify_data = print,
                                !.started = "verify"]
          IN VerifyStartOutputs(StartTask(st1, "verify", "live"), s,
                                fp_finger_to_name(selected))

match_cb(st, match, error) ==
  LET cancelled == st.p.current_cancellable = "cancelled"
      matched == match /\ ~cancelled
      st1 == [st EXCEPT !.fp.reported = IF error # OK THEN "retry"
                                        ELSE IF match THEN "match" ELSE "nomatch"]
  IN report_verify_status(st1, matched, error)

\* variant: the restart after a retry takes a fresh token
verify_cb_fresh_token(st, task, match, error, list_ok, device_prints, failing) ==
  LET st0 == [st EXCEPT !.fp.task = "none", !.fp.reported = "none", !.fp.gallery = {}]
  IN IF error \in RetryErrors
     THEN (IF task = "identify"
           THEN Identify(st0, task, st0.p.identify_data, "live")
           ELSE StartTask(st0, task, "live"))
     ELSE LET st1 == IF task = "verify" THEN [st0 EXCEPT !.p.verify_data = {}]
                     ELSE [st0 EXCEPT !.p.identify_data = {}]
              st2 == IF error # OK THEN report_verify_status(st1, FALSE, error) ELSE st1
              st3 == check_local_storage(st2, match, error, list_ok, device_prints, failing)
          IN stoppable_action_completed(st3)

\* verify_cb and identify_cb: task is "verify" or "identify"
verify_cb(st, task, match, error, list_ok, device_prints, failing) ==
  LET st0 == [st EXCEPT !.fp.task = "none", !.fp.reported = "none", !.fp.gallery = {}]
  IN IF error \in RetryErrors
     THEN (IF task = "identify"
           THEN Identify(st0, task, st0.p.identify_data, st0.p.current_cancellable)
           ELSE StartTask(st0, task, st0.p.current_cancellable))
     ELSE LET st1 == IF task = "verify" THEN [st0 EXCEPT !.p.verify_data = {}]
                     ELSE [st0 EXCEPT !.p.identify_data = {}]
              st2 == IF error # OK THEN report_verify_status(st1, FALSE, error) ELSE st1
              st3 == check_local_storage(st2, match, error, list_ok, device_prints, failing)
          IN stoppable_action_completed(st3)

verify_has_completed(p) ==
  IF p.current_cancellable \in {"null", "cancelled"} THEN "TRUE"
  ELSE IF p.current_action = "ACTION_VERIFY"
       THEN (IF p.verify_data = {} THEN "TRUE" ELSE "FALSE")
  ELSE IF p.current_action = "ACTION_IDENTIFY"
       THEN (IF p.identify_data = {} THEN "TRUE" ELSE "FALSE")
  ELSE "abort"

\* fprint_device_verify_stop after its wait loop
verify_stop_finish(st, inv) ==
  LET st1 == [st EXCEPT !.p.verify_stop_wait_timeout_id = 0]
  IN IF st1.p.current_cancel_invocation = NoInv THEN st1
     ELSE stoppable_action_stop([st1 EXCEPT !.p.current_cancel_invocation = NoInv], inv)

\* variant: the operation is cancelled at once, without the settle window
fprint_device_verify_stop_unsettled(st, invocation) ==
  LET m == "VerifyStop"
      by == "fprint_device_verify_stop"
      s == invocation.s
      err == fprint_device_check_claimed(st.p, m, s)
      stop == can_stop_action(st.p, "ACTION_VERIFY")
  IN IF err # OK THEN Emit(st, Reply(m, s, err, by))
     ELSE IF stop # OK THEN Emit(st, Reply(m, s, stop, by))
     ELSE stoppable_action_stop(st, invocation)

fprint_device_verify_stop(st, invocation) ==
  LET m == "VerifyStop"
      by == "fprint_device_verify_stop"
      s == invocation.s
      inv == invocation
      err == fprint_device_check_claimed(st.p, m, s)
      stop == can_stop_action(st.p, "ACTION_VERIFY")
      completed == verify_has_completed(st.p)
  IN IF err # OK THEN Emit(st, Reply(m, s, err, by))
     ELSE IF stop # OK THEN Emit(st, Reply(m, s, stop, by))
     ELSE IF completed = "abort" THEN Abort(st)
     ELSE IF completed = "FALSE" /\ st.p.session.verify_status_reported
          THEN IF st.p.verify_stop_wait_timeout_id # 0 THEN Abort(st)
               ELSE [st EXCEPT !.p.verify_stop_wait_timeout_id = 1,
                               !.p.current_cancel_invocation = inv,
                               !.push = Frame("verify_stop", inv,
                                               st.p.current_action)]
     ELSE stoppable_action_stop(st, inv)

(***************************************************************************)
(* Enroll                                                                  *)
(***************************************************************************)
\* fprint_device_create_enroll_template reads session->username
enroll_start(st) ==
  IF ~HasSession(st.p) THEN Abort(st)
  ELSE [StartTask(st, "enroll", st.p.current_cancellable)
          EXCEPT !.fp.template = {FpPrint(st.p.session.username, st.p.enroll_data)}]

\* variant: the print of the slot is deleted before the busy test
enroll_start_deletes_first(st, s, finger_name, dev_ok, failing) ==
  LET m == "EnrollStart"
      by == "fprint_device_enroll_start"
      finger == finger_name_to_fp_finger(finger_name)
      err == fprint_device_check_claimed(st.p, m, s)
      busy == can_start_action(st.p)
      username == st.p.session.username
      existing_print == print_data_load(st.host, finger, username)
      del == IF existing_print # {}
             THEN delete_enrolled_fingers(st, username, finger, dev_ok, failing)
             ELSE [st |-> st, error |-> OK]
      st1 == [del.st EXCEPT !.p.current_cancellable = "live",
                            !.p.enroll_data = finger,
                            !.p.current_action = "ACTION_ENROLL",
                            !.started = "enroll"]
      st2 == IF HasFeature("IDENTIFY")
             THEN Identify(st1, "enroll_identify", load_all_prints(st1.host), "live")
             ELSE enroll_start(st1)
  IN IF err # OK THEN Emit(st, Reply(m, s, err, by))
     ELSE IF finger = FP_FINGER_UNKNOWN THEN Emit(st, Reply(m, s, "InvalidFingername", by))
     ELSE IF del.error # OK THEN Emit(del.st, Reply(m, s, del.error, by))
     ELSE IF busy # OK THEN Emit(del.st, Reply(m, s, busy, by))
     ELSE Emit(st2, Reply(m, s, OK, by))

fprint_device_enroll_start(st, s, finger_name, dev_ok, failing) ==
  LET m == "EnrollStart"
      by == "fprint_device_enroll_start"
      finger == finger_name_to_fp_finger(finger_name)
      err == fprint_device_check_claimed(st.p, m, s)
      busy == can_start_action(st.p)
      username == st.p.session.username
      existing_print == print_data_load(st.host, finger, username)
      del == IF existing_print # {}
             THEN delete_enrolled_fingers(st, username, finger, dev_ok, failing)
             ELSE [st |-> st, error |-> OK]
      st1 == [del.st EXCEPT !.p.current_cancellable = "live",
                            !.p.enroll_data = finger,
                            !.p.current_action = "ACTION_ENROLL",
                            !.started = "enroll"]
      st2 == IF HasFeature("IDENTIFY")
             THEN Identify(st1, "enroll_identify", load_all_prints(st1.host), "live")
             ELSE enroll_start(st1)
  IN IF err # OK THEN Emit(st, Reply(m, s, err, by))
     ELSE IF finger = FP_FINGER_UNKNOWN THEN Emit(st, Reply(m, s, "InvalidFingername", by))
     ELSE IF busy # OK THEN Emit(st, Reply(m, s, busy, by))
     ELSE IF del.error # OK THEN Emit(del.st, Reply(m, s, del.error, by))
     ELSE Emit(st2, Reply(m, s, OK, by))

fprint_device_enroll_stop(st, s) ==
  LET m == "EnrollStop"
      by == "fprint_device_enroll_stop"
      err == fprint_device_check_claimed(st.p, m, s)
      stop == can_stop_action(st.p, "ACTION_ENROLL")
  IN IF err # OK THEN Emit(st, Reply(m, s, err, by))
     ELSE IF stop # OK THEN Emit(st, Reply(m, s, stop, by))
     ELSE stoppable_action_stop(st, Inv(m, s))

\* last: completed_stages = nr_enroll_stages
enroll_progress_cb(st, last, error) ==
  IF ~last
  THEN Emit(st, Signal("EnrollStatus", enroll_result_to_name(FALSE, FALSE, error), FALSE))
  ELSE st

\* variant: the result of the save is not looked at
enroll_cb_save_unchecked(st, error, gc_ok, save_ok) ==
  LET st0 == [st EXCEPT !.fp.task = "none", !.fp.reported = "none", !.fp.template = {}]
      enrolled == error = OK
      name == enroll_result_to_name(TRUE, enrolled, error)
      st1 == IF enrolled /\ save_ok
             THEN [st0 EXCEPT !.host = @ \cup st.fp.template]
             ELSE st0
  IN IF error = "DATA_FULL" /\ HasFeature("STORAGE_LIST") /\ gc_ok
     THEN enroll_start(st0)
     ELSE stoppable_action_completed(Emit(st1, Signal("EnrollStatus", name, TRUE)))

\* variant: a full reader that can list restarts the enroll whatever the
\* collection did
enroll_cb_restarts_unchecked(st, error, gc_ok, save_ok) ==
  LET st0 == [st EXCEPT !.fp.task = "none", !.fp.reported = "none", !.fp.template = {}]
      enrolled == error = OK
      name == IF enrolled /\ ~save_ok THEN "enroll-failed"
              ELSE enroll_result_to_name(TRUE, enrolled, error)
      st1 == IF enrolled /\ save_ok
             THEN [st0 EXCEPT !.host = @ \cup st.fp.template]
             ELSE st0
  IN IF error = "DATA_FULL" /\ HasFeature("STORAGE_LIST")
     THEN enroll_start(st0)
     ELSE stoppable_action_completed(Emit(st1, Signal("EnrollStatus", name, TRUE)))

\* gc_ok: try_delete_print found and deleted a print the host does not know;
\* save_ok: store.print_data_save returned 0
enroll_cb(st, error, gc_ok, save_ok) ==
  LET st0 == [st EXCEPT !.fp.task = "none", !.fp.reported = "none", !.fp.template = {}]
      enrolled == error = OK
      name == IF enrolled /\ ~save_ok THEN "enroll-failed"
              ELSE enroll_result_to_name(TRUE, enrolled, error)
      st1 == IF enrolled /\ save_ok
             THEN [st0 EXCEPT !.host = @ \cup st.fp.template]
             ELSE st0
  IN IF error = "DATA_FULL" /\ HasFeature("STORAGE_LIST") /\ gc_ok
     THEN enroll_start(st0)
     ELSE stoppable_action_completed(Emit(st1, Signal("EnrollStatus", name, TRUE)))

\* variant: a match does not end the enroll
enroll_identify_cb_duplicates_pass(st, error, matched, found, dev_ok) ==
  LET st0 == [st EXCEPT !.fp.task = "none", !.fp.reported = "none", !.fp.gallery = {}]
      err == IF error = "DATA_NOT_FOUND" THEN OK ELSE error
      found_print == found /\ error # "DATA_NOT_FOUND"
      retry == err \in RetryErrors
      duplicate == Emit(st0, Signal("EnrollStatus", "enroll-duplicate", TRUE))
  IN IF err # OK
     THEN LET st1 == Emit(st0, Signal("EnrollStatus",
                                      enroll_result_to_name(~retry, FALSE, err), ~retry))
          IN IF retry
             THEN Identify(st1, "enroll_identify", load_all_prints(st1.host),
                           st1.p.current_cancellable)
             ELSE stoppable_action_completed(st1)
     ELSE IF found_print /\ HasFeature("STORAGE") /\ ~dev_ok
          THEN stoppable_action_completed(duplicate)
     ELSE enroll_start(Emit(st0, Signal("EnrollStatus", "enroll-stage-passed", FALSE)))

\* matched: a gallery print matched; found: the device returned a print it
\* stores; dev_ok: fp_device_delete_print_sync of that print succeeds
enroll_identify_cb(st, error, matched, found, dev_ok) ==
  LET st0 == [st EXCEPT !.fp.task = "none", !.fp.reported = "none", !.fp.gallery = {}]
      err == IF error = "DATA_NOT_FOUND" THEN OK ELSE error
      found_print == found /\ error # "DATA_NOT_FOUND"
      retry == err \in RetryErrors
      duplicate == Emit(st0, Signal("EnrollStatus", "enroll-duplicate", TRUE))
  IN IF err # OK
     THEN LET st1 == Emit(st0, Signal("EnrollStatus",
                                      enroll_result_to_name(~retry, FALSE, err), ~retry))
          IN IF retry
             THEN Identify(st1, "enroll_identify", load_all_prints(st1.host),
                           st1.p.current_cancellable)
             ELSE stoppable_action_completed(st1)
     ELSE IF matched THEN stoppable_action_completed(duplicate)
     ELSE IF found_print /\ HasFeature("STORAGE") /\ ~dev_ok
          THEN stoppable_action_completed(duplicate)
     ELSE enroll_start(Emit(st0, Signal("EnrollStatus", "enroll-stage-passed", FALSE)))

(***************************************************************************)
(* List / delete                                                           *)
(***************************************************************************)
fprint_device_list_enrolled_fingers(st, a) ==
  LET st1 == [st EXCEPT !.p = fprint_device_add_client(@, a.s)]
      ret == {fp_finger_to_name(x.finger) :
                x \in {y \in load_user_prints(st.host, a.user) :
                         y.finger # FP_FINGER_UNKNOWN}}
      by == "fprint_device_list_enrolled_fingers"
  IN IF a.user = "" THEN Abort(st1)
     ELSE IF ret = {} THEN Emit(st1, Reply(a.m, a.s, "NoEnrolledPrints", by))
     ELSE Emit(st1, ReplyData(a.m, a.s, ret, by))

\* variant: the reader opened for the call is left open
delete_enrolled_fingers_left_open(st, a, open_ok, dev_ok, failing) ==
  LET by == "fprint_device_delete_enrolled_fingers"
      busy == can_start_action(st.p)
      err == fprint_device_check_claimed(st.p, a.m, a.s)
      opened == err = OK /\ st.fp.is_open
      sync == ~opened /\ HasFeature("STORAGE")
      st1 == [st EXCEPT !.p = fprint_device_add_client(@, a.s),
                        !.fp.is_open = IF sync THEN open_ok ELSE @,
                        !.fp.misuse = @ \/ (sync /\ st.fp.task # "none")]
      del == delete_enrolled_fingers(st1, a.user, FP_FINGER_UNKNOWN, dev_ok, failing)
  IN IF busy # OK THEN Emit(st, Reply(a.m, a.s, busy, by))
     ELSE IF err \notin {OK, "ClaimDevice"}
          THEN auto_device_action_unset(Emit(st, Reply(a.m, a.s, err, by)))
     ELSE IF a.user = "" \/ ~(a.arg = "" \/ a.user = a.arg) THEN Abort(st1)
     ELSE auto_device_action_unset(Emit(del.st, Reply(a.m, a.s, del.error, by)))

\* open_ok: fp_device_open_sync succeeds
fprint_device_delete_enrolled_fingers(st, a, open_ok, dev_ok, failing) ==
  LET by == "fprint_device_delete_enrolled_fingers"
      busy == can_start_action(st.p)
      err == fprint_device_check_claimed(st.p, a.m, a.s)
      opened == err = OK /\ st.fp.is_open
      sync == ~opened /\ HasFeature("STORAGE")
      st1 == [st EXCEPT !.p = fprint_device_add_client(@, a.s),
                        !.fp.is_open = IF sync THEN open_ok ELSE @,
                        !.fp.misuse = @ \/ (sync /\ st.fp.task # "none")]
      del == delete_enrolled_fingers(st1, a.user, FP_FINGER_UNKNOWN, dev_ok, failing)
      st2 == IF sync THEN fp_device_close_sync(del.st) ELSE del.st
  IN IF busy # OK THEN Emit(st, Reply(a.m, a.s, busy, by))
     ELSE IF err \notin {OK, "ClaimDevice"}
          THEN auto_device_action_unset(Emit(st, Reply(a.m, a.s, err, by)))
     ELSE IF a.user = "" \/ ~(a.arg = "" \/ a.user = a.arg) THEN Abort(st1)
     ELSE auto_device_action_unset(Emit(st2, Reply(a.m, a.s, del.error, by)))

fprint_device_delete_enrolled_fingers2(st, s, dev_ok, failing) ==
  LET m == "DeleteEnrolledFingers2"
      by == "fprint_device_delete_enrolled_fingers2"
      err == fprint_device_check_claimed(st.p, m, s)
      busy == can_start_action(st.p)
      del == delete_enrolled_fingers(st, st.p.session.username, FP_FINGER_UNKNOWN,
                                     dev_ok, failing)
  IN IF err # OK THEN Emit(st, Reply(m, s, err, by))
     ELSE IF busy # OK THEN Emit(st, Reply(m, s, busy, by))
     ELSE auto_device_action_unset(Emit(del.st, Reply(m, s, del.error, by)))

fprint_device_delete_enrolled_finger(st, s, finger_name, dev_ok, failing) ==
  LET m == "DeleteEnrolledFinger"
      by == "fprint_device_delete_enrolled_finger"
      finger == finger_name_to_fp_finger(finger_name)
      err == fprint_device_check_claimed(st.p, m, s)
      busy == can_start_action(st.p)
      del == delete_enrolled_fingers(st, st.p.session.username, finger, dev_ok, failing)
  IN IF err # OK THEN Emit(st, Reply(m, s, err, by))
     ELSE IF finger = FP_FINGER_UNKNOWN THEN Emit(st, Reply(m, s, "InvalidFingername", by))
     ELSE IF busy # OK THEN Emit(st, Reply(m, s, busy, by))
     ELSE auto_device_action_unset(Emit(del.st, Reply(m, s, del.error, by)))

(***************************************************************************)
(* Initial state                                                           *)
(***************************************************************************)
Methods == {"Claim", "Release", "VerifyStart", "VerifyStop", "EnrollStart", "EnrollStop",
            "ListEnrolledFingers", "DeleteEnrolledFinger", "DeleteEnrolledFingers2",
            "DeleteEnrolledFingers"}
\* the arguments clients pass to a method
ArgsOf(m) ==
  IF NeedsUserAuth(m) THEN UsernameArgs
  ELSE IF m \in {"VerifyStart", "EnrollStart", "DeleteEnrolledFinger"} THEN env.fingers
  ELSE {""}

\* the readers and stores modelled: a reader without optional features and
\* an empty store; a reader with identification and on-device storage and a
\* store holding two prints of one user
Envs ==
  {[features |-> {}, fingers |-> {"any", "left-thumb", "toe"}, store |-> {}],
   [features |-> {"IDENTIFY", "STORAGE", "STORAGE_LIST"},
    fingers |-> {"any", "left-thumb"},
    store |-> {FpPrint("u1", 1), FpPrint("u1", 7)}]}

NoOp == [kind |-> "none", sel |-> 0, done |-> 0, sel_first |-> TRUE,
         completed |-> FALSE]

fprint_device_init ==
  [session |-> NoSession,
   local_storage_checked |-> FALSE,
   verify_stop_wait_timeout_id |-> 0,
   clients |-> {},
   verify_data |-> {},
   identify_data |-> {},
   enroll_data |-> FP_FINGER_UNKNOWN,
   current_action |-> "ACTION_NONE",
   current_cancellable |-> "null",
   current_cancel_invocation |-> NoInv]

FpDeviceInit ==
  [is_open |-> FALSE, template |-> {}, gallery |-> {}, task |-> "none",
   reported |-> "none", misuse |-> FALSE]

InitDevice ==
  /\ priv = fprint_device_init
  /\ fp = FpDeviceInit
  /\ alive = Senders
  /\ stack = <<>>
  /\ out = <<>>
  /\ op = NoOp
  /\ aborted = FALSE

(***************************************************************************)
(* Steps of the device: one dispatched main-loop source each               *)
(***************************************************************************)
\* what polkit grants a subject: nothing, the second action asked only, everything
Grants == {{}, {"enroll"}, {"verify", "enroll", "setusername"}}
\* the outcomes of store.print_data_delete on the prints a delete targets
StoreFailures(user, finger) ==
  SUBSET (IF finger = FP_FINGER_UNKNOWN THEN load_user_prints(host, user)
          ELSE print_data_load(host, finger, user))
\* the outcomes of fp_device_delete_print_sync
DeviceResults == IF HasFeature("STORAGE") THEN BOOLEAN ELSE {TRUE}
\* the results of fp_device_list_prints_sync and of the deletes that follow it,
\* as far as check_local_storage tells them apart after this completion
ListResults(found_match, error) ==
  IF HasFeature("STORAGE_LIST")
     /\ (error = "DATA_NOT_FOUND"
         \/ (error = OK /\ ~priv.local_storage_checked /\ ~found_match))
  THEN {[ok |-> FALSE, prints |-> {}, failing |-> {}]}
       \cup {[ok |-> TRUE, prints |-> d, failing |-> f] :
               d \in SUBSET host, f \in {{}, host}}
  ELSE {[ok |-> TRUE, prints |-> {}, failing |-> {}]}

Quiet == UNCHANGED <<alive, env, mgr, gc, disk>>
\* the main loop dispatches the next source: the outputs of the previous one
\* have left, and the observer of a finished operation is reset
Ready ==
  /\ ~aborted
  /\ out = <<>>
  /\ priv.current_action = "ACTION_NONE" => op = NoOp

\* The distinct results of g-authorize-method for a call of m by s, over the
\* arguments clients pass and the answers of the bus and of polkit; arg is
\* the argument of an authorized call.
Authorizations(m, s) ==
  {LET r == action_authorization_handler(priv, m, s, arg, lookup_ok, grant)
   IN [out |-> r.out, error |-> r.error, user |-> r.user,
       arg |-> IF r.error = OK THEN arg ELSE ""] :
     arg \in ArgsOf(m),
     lookup_ok \in IF NeedsUserAuth(m) THEN BOOLEAN ELSE {TRUE},
     grant \in IF get_permissions_for_invocation(m) = {} THEN {{}} ELSE Grants}

Authorized(r) == [Cur EXCEPT !.out = r.out]

\* the invocations a handler or the device still points to
Referenced ==
  {stack[i].inv : i \in 1..Len(stack)}
    \cup {priv.current_cancel_invocation, priv.session.invocation}
\* a new invocation object differs from every object still pointed to
NewInvocation(m, s) ==
  LET free == {n \in Serials : [m |-> m, s |-> s, n |-> n] \notin Referenced}
  IN [m |-> m, s |-> s,
      n |-> IF free = {} THEN 0 ELSE CHOOSE n \in free : \A k \in free : n <= k]
Invocation(m, s, r) == [m |-> m, s |-> s, arg |-> r.arg, user |-> r.user]

\* A method call.  GDBus emits g-authorize-method and, when that returns
\* TRUE, calls the method handler in the same dispatch; st is the state the
\* method handler leaves.
Dispatch(r, st) ==
  /\ Commit(IF r.error # OK THEN Authorized(r) ELSE st, stack)
  /\ Quiet

Claim(s) ==
  /\ Ready /\ s \in alive
  /\ \E r \in Authorizations("Claim", s) :
       Dispatch(r, fprint_device_claim(Authorized(r), Invocation("Claim", s, r)))

Release(s) ==
  /\ Ready /\ s \in alive
  /\ \E r \in Authorizations("Release", s) :
       Dispatch(r, fprint_device_release(Authorized(r), s))

VerifyStart(s) ==
  /\ Ready /\ s \in alive
  /\ \E r \in Authorizations("VerifyStart", s) :
       LET gallery == load_user_prints(host, priv.session.username)
       IN \E first \in IF gallery = {} \/ r.error # OK
                       THEN {FpPrint("", FP_FINGER_UNKNOWN)} ELSE gallery :
            Dispatch(r, fprint_device_verify_start(Authorized(r), s, r.arg, first))

VerifyStop(s) ==
  /\ Ready /\ s \in alive
  /\ \E r \in Authorizations("VerifyStop", s) :
       Dispatch(r, fprint_device_verify_stop(Authorized(r),
                                             NewInvocation("VerifyStop", s)))

EnrollStart(s) ==
  /\ Ready /\ s \in alive
  /\ \E r \in Authorizations("EnrollStart", s) :
       \E st \in {fprint_device_enroll_start(Authorized(r), s, r.arg, dev_ok, failing) :
                    dev_ok \in DeviceResults,
                    failing \in StoreFailures(priv.session.username,
                                              finger_name_to_fp_finger(r.arg))} :
         Dispatch(r, st)

EnrollStop(s) ==
  /\ Ready /\ s \in alive
  /\ \E r \in Authorizations("EnrollStop", s) :
       Dispatch(r, fprint_device_enroll_stop(Authorized(r), s))

ListEnrolledFingers(s) ==
  /\ Ready /\ s \in alive
  /\ \E r \in Authorizations("ListEnrolledFingers", s) :
       Dispatch(r, fprint_device_list_enrolled_fingers(
                     Authorized(r), Invocation("ListEnrolledFingers", s, r)))

DeleteEnrolledFinger(s) ==
  /\ Ready /\ s \in alive
  /\ \E r \in Authorizations("DeleteEnrolledFinger", s) :
       \E st \in {fprint_device_delete_enrolled_finger(Authorized(r), s, r.arg, dev_ok,
                                                       failing) :
                    dev_ok \in DeviceResults,
                    failing \in StoreFailures(priv.session.username,
                                              finger_name_to_fp_finger(r.arg))} :
         Dispatch(r, st)

DeleteEnrolledFingers2(s) ==
  /\ Ready /\ s \in alive
  /\ \E r \in Authorizations("DeleteEnrolledFingers2", s) :
       \E st \in {fprint_device_delete_enrolled_fingers2(Authorized(r), s, dev_ok, failing) :
                    dev_ok \in DeviceResults,
                    failing \in StoreFailures(priv.session.username, FP_FINGER_UNKNOWN)} :
         Dispatch(r, st)

DeleteEnrolledFingers(s) ==
  /\ Ready /\ s \in alive
  /\ \E r \in Authorizations("DeleteEnrolledFingers", s) :
       \E st \in {fprint_device_delete_enrolled_fingers(
                    Authorized(r), Invocation("DeleteEnrolledFingers", s, r),
                    open_ok, dev_ok, failing) :
                    open_ok \in DeviceResults, dev_ok \in DeviceResults,
                    failing \in StoreFailures(r.user, FP_FINGER_UNKNOWN)} :
         Dispatch(r, st)

\* a driver callback or a timer
Callback(st) ==
  /\ Ready
  /\ Commit(st, stack)
  /\ Quiet

DevOpenCb == fp.task = "open" /\ \E ok \in BOOLEAN : Callback(dev_open_cb(Cur, ok))
DevCloseCb == fp.task = "close" /\ \E ok \in BOOLEAN : Callback(dev_close_cb(Cur, ok))

\* libfprint reports one result per run, and none once the run is cancelled
\* before it starts
MatchCb ==
  /\ fp.task \in {"verify", "identify"} /\ fp.reported = "none"
  /\ \E r \in {[match |-> TRUE, error |-> OK], [match |-> FALSE, error |-> OK]}
              \cup {[match |-> FALSE, error |-> e] : e \in DriverRetry} :
       Callback(match_cb(Cur, r.match, r.error))

\* the errors a verify/identify run can finish with (fpi_device_verify_complete,
\* and GTask returning G_IO_ERROR_CANCELLED once the token is cancelled)
CompletionErrors ==
  IF priv.current_cancellable = "cancelled" \/ fp.reported = "dead" THEN {"CANCELLED"}
  ELSE IF fp.reported = "none" THEN DriverErrors
  ELSE IF fp.reported = "retry" THEN {"RETRY_GENERAL"} \cup DriverErrors
  ELSE {OK} \cup DriverErrors

VerifyCb ==
  /\ fp.task = "verify"
  /\ \E error \in CompletionErrors :
       LET match == error = OK /\ fp.reported = "match"
       IN \E l \in ListResults(match, error) :
            Callback(verify_cb(Cur, "verify", match, error, l.ok, l.prints, l.failing))

IdentifyCb ==
  /\ fp.task = "identify"
  /\ \E error \in CompletionErrors :
       LET match == error = OK /\ fp.reported = "match"
       IN \E l \in ListResults(match, error) :
            Callback(verify_cb(Cur, "identify", match, error, l.ok, l.prints, l.failing))

EnrollErrors ==
  IF priv.current_cancellable = "cancelled" THEN {"CANCELLED"}
  ELSE {OK, "DATA_FULL", "PROTO"}

EnrollProgressCb ==
  /\ fp.task = "enroll" /\ priv.current_cancellable # "cancelled"
  /\ \E last \in BOOLEAN, error \in {OK} \cup DriverRetry :
       Callback(enroll_progress_cb(Cur, last, error))

EnrollCb ==
  /\ fp.task = "enroll"
  /\ \E error \in EnrollErrors,
        gc_ok \in IF HasFeature("STORAGE_LIST") THEN BOOLEAN ELSE {FALSE},
        save_ok \in BOOLEAN :
       Callback(enroll_cb(Cur, error, gc_ok, save_ok))

EnrollIdentifyCb ==
  /\ fp.task = "enroll_identify"
  /\ \E error \in IF priv.current_cancellable = "cancelled" THEN {"CANCELLED"}
                  ELSE {OK, "DATA_NOT_FOUND", "RETRY_GENERAL", "PROTO"},
        matched \in IF fp.gallery = {} THEN {FALSE} ELSE BOOLEAN,
        found \in DeviceResults, dev_ok \in DeviceResults :
       Callback(enroll_identify_cb(Cur, error, matched /\ error = OK, found, dev_ok))

VerifyStopWaitTimeout ==
  /\ priv.verify_stop_wait_timeout_id # 0
  /\ Callback([Cur EXCEPT !.p.verify_stop_wait_timeout_id = 0])

\* the watched bus name of a client disappears
ClientVanished(name) ==
  /\ Ready /\ name \in alive /\ name \in priv.clients
  /\ alive' = alive \ {name}
  /\ Commit(fprint_device_client_vanished(Cur, name), stack)
  /\ UNCHANGED <<env, mgr, gc, disk>>

(***************************************************************************)
(* Return of g_main_context_iteration to the innermost waiting handler     *)
(***************************************************************************)
Top == stack[Len(stack)]
Popped == SubSeq(stack, 1, Len(stack) - 1)

Resume(st) ==
  /\ Commit(st, Popped)
  /\ Quiet

ReleaseResume ==
  /\ Ready /\ stack # <<>> /\ Top.kind = "release"
  /\ priv.current_action = "ACTION_NONE"
  /\ Resume([release_finish(Cur, Top.inv) EXCEPT !.started = "release"])

VanishedResume ==
  /\ Ready /\ stack # <<>> /\ Top.kind = "vanished"
  /\ priv.current_action = "ACTION_NONE"
  /\ Resume([vanished_finish(Cur, Top.inv.s)
               EXCEPT !.started = IF Top.action \in {"ACTION_VERIFY", "ACTION_IDENTIFY",
                                                     "ACTION_ENROLL"}
                                  THEN "vanished" ELSE "none"])

VerifyStopResume ==
  /\ Ready /\ stack # <<>> /\ Top.kind = "verify_stop"
  /\ LET completed == IF priv.verify_stop_wait_timeout_id = 0 THEN "TRUE"
                      ELSE verify_has_completed(priv)
     IN /\ completed # "FALSE"
        /\ IF completed = "abort" THEN Resume(Abort(Cur))
           ELSE Resume(verify_stop_finish(Cur, Top.inv))

\* the messages of the last step have gone out on the bus
Deliver ==
  /\ out # <<>> \/ (~aborted /\ priv.current_action = "ACTION_NONE" /\ op # NoOp)
  /\ out' = <<>>
  /\ op' = IF priv.current_action = "ACTION_NONE" THEN NoOp ELSE op
  /\ UNCHANGED <<priv, fp, host, alive, stack, aborted, env, mgr, gc, disk>>

\* ---------------------------------------------------------------------
\* The manager: sleep handshake with the seat service (manager.c)
\* ---------------------------------------------------------------------

\* devices the manager exports at most
MaxDevices == 2
\* device ids handed out (device.c: last_id), at most
MaxIds == 3
\* device suspends whose completion has not been dispatched, at most
MaxSuspending == 3
\* Inhibit calls whose reply has not been dispatched, at most
MaxInhibits == 2

\* descriptors an Inhibit reply can carry (0, 1, 2 are the standard streams)
InhibitFds == {3, 4}

\* FprintManagerPrivate after g_object_new: the instance is zero filled
FprintManagerPrivate ==
  [ devices                   |-> 0,
    prepare_for_sleep_pending |-> 0,
    sleep_inhibit_fd          |-> 0,
    suspending                |-> 0,      \* fprint_device_suspend tasks in flight
    inhibit_calls             |-> 0,      \* Inhibit calls in flight
    sleeping                  |-> FALSE,  \* the last PrepareForSleep was true
    open_fds                  |-> {},     \* inhibitor descriptors open in the process
    resumed                   |-> 0,      \* fprint_device_resume calls of the last signal
    objects                   |-> <<>>,   \* the exported devices, as get_objects lists them
    last_id                   |-> 0,      \* device ids handed out so far
    timeout_id                |-> 0,
    no_timeout                |-> FALSE,
    timers                    |-> 0,      \* idle-exit timeout sources attached to the main loop
    exited                    |-> FALSE,  \* fprint_manager_timeout_cb called exit
    reply                     |-> <<>>,   \* what the last manager method call returned
    last                      |-> "init" ]

FP_TEMPERATURE_COLD == 0
\* the levels above cold a reader reports (warm, hot)
MaxWarm == 2
Temperatures == FP_TEMPERATURE_COLD..(FP_TEMPERATURE_COLD + MaxWarm)
\* an exported FprintDevice as the manager sees it: its id, the bus names it
\* watches and the temperature of its reader
FprintDeviceNew(id) == [id |-> id, clients |-> {}, temperature |-> FP_TEMPERATURE_COLD]
\* the "busy" property
fprint_device_busy(d) == d.clients # {} \/ d.temperature > FP_TEMPERATURE_COLD
get_device_path(d) == d.id

\* the sequence seq with x put at place i
InsertAt(seq, i, x) == SubSeq(seq, 1, i - 1) \o <<x>> \o SubSeq(seq, i, Len(seq))
RemoveAt(seq, i) == SubSeq(seq, 1, i - 1) \o SubSeq(seq, i + 1, Len(seq))
g_list_reverse(seq) == [i \in 1..Len(seq) |-> seq[Len(seq) + 1 - i]]

\* variant: the timer is armed again whatever the devices do
busy_notified_always_arms(m) ==
  LET m1 == IF m.timeout_id > 0
            THEN [m EXCEPT !.timeout_id = 0, !.timers = @ - 1]
            ELSE m
  IN IF m1.no_timeout THEN m1
     ELSE [m1 EXCEPT !.timeout_id = 1, !.timers = @ + 1]

fprint_manager_busy_notified(m) ==
  LET m1 == IF m.timeout_id > 0
            THEN [m EXCEPT !.timeout_id = 0, !.timers = @ - 1]
            ELSE m
      num_devices_busy ==
        Cardinality({i \in 1..Len(m1.objects) : fprint_device_busy(m1.objects[i])})
  IN IF m1.no_timeout THEN m1
     ELSE IF num_devices_busy = 0
          THEN [m1 EXCEPT !.timeout_id = 1, !.timers = @ + 1]
          ELSE m1

\* pos: where the hash table of the object manager lists the new object
device_added_cb(m, pos) ==
  [m EXCEPT !.objects = InsertAt(@, pos, FprintDeviceNew(m.last_id)),
            !.last_id = @ + 1,
            !.devices = @ + 1]

\* i: the object of the FpDevice that went away
device_removed_cb(m, i) ==
  fprint_manager_busy_notified(
    [m EXCEPT !.objects = RemoveAt(@, i), !.devices = @ - 1])

\* the result the method handler completes the invocation with
fprint_manager_get_devices(m) ==
  LET objects == g_list_reverse(m.objects)
  IN <<OK, [i \in 1..Len(objects) |-> get_device_path(objects[i])]>>

\* variant: the device listed first is the default
get_default_device_first(m) ==
  LET num_open == Len(m.objects)
  IN IF num_open > 0 THEN <<OK, <<get_device_path(m.objects[1])>> >>
     ELSE <<"NoSuchDevice", <<>> >>

fprint_manager_get_default_device(m) ==
  LET num_open == Len(m.objects)
  IN IF num_open > 0 THEN <<OK, <<get_device_path(m.objects[num_open])>> >>
     ELSE <<"NoSuchDevice", <<>> >>

\* _fprint_device_add_client of device i for a bus name it does not watch yet
fprint_device_add_client_notify(m, i, sender) ==
  fprint_manager_busy_notified([m EXCEPT !.objects[i].clients = @ \cup {sender}])

\* the tail of _fprint_device_client_vanished of device i
fprint_device_client_vanished_notify(m, i, name) ==
  LET m1 == [m EXCEPT !.objects[i].clients = @ \ {name}]
  IN IF m1.objects[i].clients = {} THEN fprint_manager_busy_notified(m1) ELSE m1

on_temperature_changed(m, i, temperature) ==
  fprint_manager_busy_notified([m EXCEPT !.objects[i].temperature = temperature])

fprint_manager_timeout_cb(m) == [m EXCEPT !.exited = TRUE]

\* the lowest descriptor the reply can bring: the old one is still open
NewFd(m) == CHOOSE fd \in InhibitFds :
              /\ fd # m.sleep_inhibit_fd
              /\ \A other \in InhibitFds \ {m.sleep_inhibit_fd} : fd <= other

fprint_device_suspend_cb(m) ==
  LET pending == m.prepare_for_sleep_pending - 1
  IN IF pending = 0
     THEN [m EXCEPT !.prepare_for_sleep_pending = pending,
                    !.open_fds = @ \ {m.sleep_inhibit_fd},
                    !.sleep_inhibit_fd = -1]
     ELSE [m EXCEPT !.prepare_for_sleep_pending = pending]

\* variant: the descriptor held is not closed before the new one is stored
logind_sleep_inhibit_cb_unclosed(m, ok) ==
  IF ~ok THEN m
  ELSE [m EXCEPT !.open_fds = @ \cup {NewFd(m)},
                 !.sleep_inhibit_fd = NewFd(m)]

logind_sleep_inhibit_cb(m, ok) ==
  IF ~ok THEN m
  ELSE [m EXCEPT !.open_fds = (@ \ {m.sleep_inhibit_fd}) \cup {NewFd(m)},
                 !.sleep_inhibit_fd = NewFd(m)]

handle_prepare_for_sleep_signal(m, prepare_for_sleep) ==
  IF prepare_for_sleep
  THEN fprint_device_suspend_cb(
         [m EXCEPT !.prepare_for_sleep_pending = 1 + m.devices,
                   !.suspending = m.suspending + m.devices,
                   !.sleeping = TRUE])
  ELSE [m EXCEPT !.inhibit_calls = m.inhibit_calls + 1,
                 !.resumed = m.devices,
                 !.sleeping = FALSE]

\* the faked resume at the end of construction takes the first inhibitor
fprint_manager_constructed == handle_prepare_for_sleep_signal(FprintManagerPrivate, FALSE)

DeviceQuiet == UNCHANGED <<priv, fp, host, alive, stack, out, op, aborted, env, gc, disk>>

fprint_manager_new(no_timeout) ==
  LET m == [fprint_manager_constructed EXCEPT !.no_timeout = no_timeout]
  IN IF ~no_timeout THEN [m EXCEPT !.timeout_id = 1, !.timers = @ + 1] ELSE m

DeviceAddedCb ==
  /\ ~mgr.exited
  /\ mgr.devices < MaxDevices /\ mgr.last_id < MaxIds
  /\ \E pos \in 1..(Len(mgr.objects) + 1) :
       mgr' = [device_added_cb(mgr, pos) EXCEPT !.last = "device_added_cb"]
  /\ DeviceQuiet

DeviceRemovedCb ==
  /\ ~mgr.exited
  /\ \E i \in 1..Len(mgr.objects) :
       mgr' = [device_removed_cb(mgr, i) EXCEPT !.last = "device_removed_cb"]
  /\ DeviceQuiet

\* a method call of a bus name the device does not watch yet reaches
\* _fprint_device_add_client
DeviceClientAdded ==
  /\ ~mgr.exited
  /\ \E i \in 1..Len(mgr.objects), sender \in Senders :
       /\ sender \notin mgr.objects[i].clients
       /\ mgr' = [fprint_device_add_client_notify(mgr, i, sender)
                    EXCEPT !.last = "fprint_device_add_client"]
  /\ DeviceQuiet

DeviceClientVanished ==
  /\ ~mgr.exited
  /\ \E i \in 1..Len(mgr.objects) : \E name \in mgr.objects[i].clients :
       mgr' = [fprint_device_client_vanished_notify(mgr, i, name)
                 EXCEPT !.last = "fprint_device_client_vanished"]
  /\ DeviceQuiet

\* the reader warms up by one level while it is in use, and cools down by one
OnTemperatureChanged ==
  /\ ~mgr.exited
  /\ \E i \in 1..Len(mgr.objects), temperature \in Temperatures :
       /\ \/ temperature = mgr.objects[i].temperature - 1
          \/ temperature = mgr.objects[i].temperature + 1 /\ mgr.objects[i].clients # {}
       /\ mgr' = [on_temperature_changed(mgr, i, temperature)
                    EXCEPT !.last = "on_temperature_changed"]
  /\ DeviceQuiet

TimeoutCb ==
  /\ ~mgr.exited /\ mgr.timers > 0
  /\ mgr' = [fprint_manager_timeout_cb(mgr) EXCEPT !.last = "fprint_manager_timeout_cb"]
  /\ DeviceQuiet

GetDevices ==
  /\ ~mgr.exited
  /\ mgr' = [mgr EXCEPT !.reply = fprint_manager_get_devices(mgr),
                        !.last = "handle_get_devices"]
  /\ DeviceQuiet

GetDefaultDevice ==
  /\ ~mgr.exited
  /\ mgr' = [mgr EXCEPT !.reply = fprint_manager_get_default_device(mgr),
                        !.last = "handle_get_default_device"]
  /\ DeviceQuiet

PrepareForSleep(prepare_for_sleep) ==
  /\ prepare_for_sleep => mgr.suspending + mgr.devices <= MaxSuspending
  /\ ~prepare_for_sleep => mgr.inhibit_calls < MaxInhibits
  /\ mgr' = [handle_prepare_for_sleep_signal(mgr, prepare_for_sleep)
               EXCEPT !.last = "handle_prepare_for_sleep_signal"]
  /\ DeviceQuiet

SuspendCb ==
  /\ mgr.suspending > 0
  /\ mgr' = [fprint_device_suspend_cb([mgr EXCEPT !.suspending = mgr.suspending - 1])
               EXCEPT !.last = "fprint_device_suspend_cb"]
  /\ DeviceQuiet

LogindSleepInhibitCb ==
  /\ mgr.inhibit_calls > 0
  /\ \E ok \in BOOLEAN :
       mgr' = [logind_sleep_inhibit_cb([mgr EXCEPT !.inhibit_calls = mgr.inhibit_calls - 1], ok)
                 EXCEPT !.last = "logind_sleep_inhibit_cb"]
  /\ DeviceQuiet

(***************************************************************************)
(* The file backend (file_storage.c): one file per user, reader and finger *)
(***************************************************************************)
MaxFiles == 2     \* files under the storage path

StoreDevs == {"d1", "d2"}      \* driver and device id of a reader
StoreFingers == {FP_FINGER_FIRST, FP_FINGER_LAST}
StorePrints == [dev : StoreDevs, finger : StoreFingers, username : Users]
NoStorePrint == [dev |-> "", finger |-> FP_FINGER_UNKNOWN, username |-> ""]

HexDigits == <<"1", "2", "3", "4", "5", "6", "7", "8", "9", "a", "b", "c", "d", "e", "f">>
\* g_snprintf (fingername, 2, "%x", finger): the first hexadecimal digit
RECURSIVE fingername(_)
fingername(finger) ==
  IF finger = 0 THEN "0"
  ELSE IF finger < 16 THEN HexDigits[finger]
  ELSE fingername(finger \div 16)
\* g_ascii_strtoull (ent, &endptr, 16) of a name of one character
HexValue(ent) ==
  IF \E v \in 1..15 : HexDigits[v] = ent THEN CHOOSE v \in 1..15 : HexDigits[v] = ent
  ELSE 0
FP_FINGER_IS_VALID(finger) == finger >= FP_FINGER_FIRST /\ finger <= FP_FINGER_LAST

file_storage_get_basestore_for_username(username) == username
get_path_to_print(dev, finger, base_store) ==
  [base_store |-> base_store, dev |-> dev, name |-> fingername(finger)]
StorePaths ==
  [base_store : Users, dev : StoreDevs, name : {fingername(f) : f \in StoreFingers}]

\* the bytes of a file: none, something that is no print, or a print
NoFile == <<>>
Damaged == <<"?">>
fp_print_serialize(print) == <<print.dev, print.username, print.finger>>
fp_print_deserialize(contents) ==
  IF Len(contents) = 3
  THEN [dev |-> contents[1], finger |-> contents[3], username |-> contents[2]]
  ELSE NoStorePrint

NoDisk == [files |-> [path \in StorePaths |-> NoFile], call |-> "none",
           r |-> "0", print |-> NoStorePrint, list |-> {}]

file_storage_print_data_save(files, print, serialize_ok, mkdir_ok, write_ok) ==
  LET base_store == file_storage_get_basestore_for_username(print.username)
      path == get_path_to_print(print.dev, print.finger, base_store)
  IN IF ~serialize_ok THEN [files |-> files, r |-> "-ENOMEM"]
     ELSE IF ~mkdir_ok THEN [files |-> files, r |-> "-1"]
     ELSE IF ~write_ok THEN [files |-> files, r |-> "code"]
     ELSE [files |-> [files EXCEPT ![path] = fp_print_serialize(print)], r |-> "0"]

load_from_file(files, path, read_ok) ==
  IF files[path] = NoFile THEN [r |-> "-ENOENT", print |-> NoStorePrint]
  ELSE IF ~read_ok THEN [r |-> "code", print |-> NoStorePrint]
  ELSE LET new == fp_print_deserialize(files[path])
       IN IF new = NoStorePrint THEN [r |-> "-EIO", print |-> NoStorePrint]
          ELSE [r |-> "0", print |-> new]

\* fp_print_compatible: the print was made by this reader
fp_print_compatible(print, dev) == print.dev = dev

\* variant: the user of the loaded print is not compared
file_storage_print_data_load_any_user(files, dev, finger, username, read_ok) ==
  LET base_store == file_storage_get_basestore_for_username(username)
      path == get_path_to_print(dev, finger, base_store)
      l == load_from_file(files, path, read_ok)
  IN IF l.r # "0" THEN l
     ELSE IF l.print.finger # finger THEN [r |-> "-EINVAL", print |-> NoStorePrint]
     ELSE IF ~fp_print_compatible(l.print, dev)
          THEN [r |-> "-EINVAL", print |-> NoStorePrint]
     ELSE l

file_storage_print_data_load(files, dev, finger, username, read_ok) ==
  LET base_store == file_storage_get_basestore_for_username(username)
      path == get_path_to_print(dev, finger, base_store)
      l == load_from_file(files, path, read_ok)
  IN IF l.r # "0" THEN l
     ELSE IF l.print.finger # finger THEN [r |-> "-EINVAL", print |-> NoStorePrint]
     ELSE IF l.print.username # username THEN [r |-> "-EINVAL", print |-> NoStorePrint]
     ELSE IF ~fp_print_compatible(l.print, dev)
          THEN [r |-> "-EINVAL", print |-> NoStorePrint]
     ELSE l

\* the directories emptied by the delete are removed; they hold no file
file_storage_print_data_delete(files, dev, finger, username, unlink_ok) ==
  LET base_store == file_storage_get_basestore_for_username(username)
      path == get_path_to_print(dev, finger, base_store)
  IN IF files[path] = NoFile THEN [files |-> files, r |-> "0"]
     ELSE IF ~unlink_ok THEN [files |-> files, r |-> "-1"]
     ELSE [files |-> [files EXCEPT ![path] = NoFile], r |-> "0"]

\* scan_dev_storedir: the fingers named by the files of the directory
file_storage_discover_prints(files, dev, username) ==
  LET base_store == file_storage_get_basestore_for_username(username)
  IN {HexValue(path.name) :
        path \in {q \in StorePaths : /\ q.base_store = base_store /\ q.dev = dev
                                     /\ files[q] # NoFile
                                     /\ FP_FINGER_IS_VALID(HexValue(q.name))}}

FileCount(files) == Cardinality({path \in StorePaths : files[path] # NoFile})
DiskQuiet == UNCHANGED <<priv, fp, host, alive, stack, out, op, aborted, env, mgr, gc>>

PrintDataSave ==
  /\ \E print \in StorePrints, serialize_ok, mkdir_ok, write_ok \in BOOLEAN :
       LET s == file_storage_print_data_save(disk.files, print, serialize_ok, mkdir_ok,
                                             write_ok)
       IN /\ FileCount(s.files) <= MaxFiles
          /\ disk' = [files |-> s.files, call |-> "save", r |-> s.r,
                      print |-> NoStorePrint, list |-> {}]
  /\ DiskQuiet

PrintDataLoad ==
  /\ \E dev \in StoreDevs, finger \in StoreFingers, username \in Users, read_ok \in BOOLEAN :
       LET l == file_storage_print_data_load(disk.files, dev, finger, username, read_ok)
       IN disk' = [files |-> disk.files, call |-> "load", r |-> l.r, print |-> l.print,
                   list |-> {}]
  /\ DiskQuiet

PrintDataDelete ==
  /\ \E dev \in StoreDevs, finger \in StoreFingers, username \in Users,
        unlink_ok \in BOOLEAN :
       LET d == file_storage_print_data_delete(disk.files, dev, finger, username, unlink_ok)
       IN disk' = [files |-> d.files, call |-> "delete", r |-> d.r,
                   print |-> NoStorePrint, list |-> {}]
  /\ DiskQuiet

DiscoverPrints ==
  /\ \E dev \in StoreDevs, username \in Users :
       disk' = [files |-> disk.files, call |-> "discover", r |-> "0",
                print |-> NoStorePrint,
                list |-> file_storage_discover_prints(disk.files, dev, username)]
  /\ DiskQuiet

\* outside the daemon: a file is moved to another user, reader or finger
FileMoved ==
  /\ \E from, to \in StorePaths :
       /\ disk.files[from] # NoFile /\ disk.files[to] = NoFile
       /\ disk' = [disk EXCEPT !.files = [@ EXCEPT ![to] = disk.files[from],
                                                   ![from] = NoFile],
                               !.call = "none"]
  /\ DiskQuiet

\* outside the daemon: a file loses its contents
FileDamaged ==
  /\ \E path \in StorePaths :
       /\ disk.files[path] \notin {NoFile, Damaged}
       /\ disk' = [disk EXCEPT !.files = [@ EXCEPT ![path] = Damaged], !.call = "none"]
  /\ DiskQuiet

(***************************************************************************)
(* Garbage collection of the reader's own storage                          *)
(***************************************************************************)
MaxPrints == 3    \* prints the reader can hold
MaxJulian == 2    \* enrollment dates, as Julian days
MaxRand == 2      \* g_random_int_range yields 1..MaxRand

PrintKeys == 1..MaxPrints
\* julian 0: the print carries no valid enrollment date
DevicePrints == [key : PrintKeys, julian : 0..MaxJulian]
NoPrint == [key |-> 0, julian |-> 0]
NoStorage == [device |-> {}, host |-> <<>>, remainder |-> <<>>,
              deleted |-> NoPrint, result |-> "none"]

\* sort_rand[k]: the number stored under "sort-rand" of print k the first
\* time a comparison needs it
garbage_collect_sort(print_a, print_b, sort_rand) ==
  LET julian_a == print_a.julian
      julian_b == print_b.julian
      rand_a == sort_rand[print_a.key]
      rand_b == sort_rand[print_b.key]
  IN IF julian_a # julian_b THEN julian_b - julian_a
     ELSE rand_b - rand_a

\* stable insertion: x goes before the first element that compares greater
RECURSIVE InsertSorted(_, _, _)
InsertSorted(x, sorted, sort_rand) ==
  IF sorted = <<>> THEN <<x>>
  ELSE IF garbage_collect_sort(x, Head(sorted), sort_rand) < 0 THEN <<x>> \o sorted
  ELSE <<Head(sorted)>> \o InsertSorted(x, Tail(sorted), sort_rand)

RECURSIVE g_ptr_array_sort(_, _)
g_ptr_array_sort(array, sort_rand) ==
  IF array = <<>> THEN <<>>
  ELSE LET n == Len(array)
       IN InsertSorted(array[n], g_ptr_array_sort(SubSeq(array, 1, n - 1), sort_rand),
                       sort_rand)

\* index of the first element equal to the print, 0 if there is none
RECURSIVE g_ptr_array_find_with_equal_func(_, _, _)
g_ptr_array_find_with_equal_func(array, key, from) ==
  IF from > Len(array) THEN 0
  ELSE IF array[from].key = key THEN from
  ELSE g_ptr_array_find_with_equal_func(array, key, from + 1)

g_ptr_array_remove_index(array, index) ==
  SubSeq(array, 1, index - 1) \o SubSeq(array, index + 1, Len(array))

\* the loop over host_prints of try_delete_print
RECURSIVE RemoveHostPrints(_, _)
RemoveHostPrints(device_prints, host_prints) ==
  IF host_prints = <<>> THEN device_prints
  ELSE LET index == g_ptr_array_find_with_equal_func(device_prints, Head(host_prints), 1)
       IN RemoveHostPrints(IF index = 0 THEN device_prints
                           ELSE g_ptr_array_remove_index(device_prints, index),
                           Tail(host_prints))

\* listed: what fp_device_list_prints_sync returned; dev_ok: the result of
\* fp_device_delete_print_sync
try_delete_print(g, list_ok, listed, sort_rand, dev_ok) ==
  IF ~list_ok
  THEN [g EXCEPT !.result = "FALSE", !.remainder = <<>>, !.deleted = NoPrint]
  ELSE LET device_prints == RemoveHostPrints(g_ptr_array_sort(listed, sort_rand), g.host)
       IN IF device_prints = <<>>
          THEN [g EXCEPT !.result = "FALSE", !.remainder = <<>>, !.deleted = NoPrint]
          ELSE IF ~dev_ok
          THEN [g EXCEPT !.result = "FALSE", !.remainder = device_prints,
                         !.deleted = NoPrint]
          ELSE [g EXCEPT !.result = "TRUE", !.remainder = device_prints,
                         !.deleted = device_prints[1],
                         !.device = @ \ {device_prints[1]}]

\* the orders in which the reader may list its prints
Listings(device) ==
  {l \in [1..Cardinality(device) -> device] : \A i, j \in DOMAIN l : i # j => l[i] # l[j]}

RECURSIVE Ascending(_, _)
Ascending(keys, from) ==
  IF from > MaxPrints THEN <<>>
  ELSE (IF from \in keys THEN <<from>> ELSE <<>>) \o Ascending(keys, from + 1)

\* enroll_cb met FP_DEVICE_ERROR_DATA_FULL on a reader that lists its prints
TryDeletePrint ==
  /\ \E list_ok, dev_ok \in BOOLEAN :
       \E listed \in Listings(gc.device) :
         \E sort_rand \in [PrintKeys -> 1..MaxRand] :
           gc' = try_delete_print(gc, list_ok, listed, sort_rand, dev_ok)
  /\ UNCHANGED <<priv, fp, host, alive, stack, out, op, aborted, env, mgr, disk>>

\* a reader holding any prints, each key once, and a host knowing any of them
InitGc ==
  /\ InitDevice
  /\ env \in {e \in Envs : "STORAGE_LIST" \in e.features}
  /\ host = env.store
  /\ mgr = fprint_manager_new(FALSE)
  /\ disk = NoDisk
  /\ \E device \in SUBSET DevicePrints, known \in SUBSET PrintKeys :
       /\ \A a, b \in device : a.key = b.key => a = b
       /\ gc = [NoStorage EXCEPT !.device = device, !.host = Ascending(known, 1)]

NextGc == TryDeletePrint

SpecGc == InitGc /\ [][NextGc]_vars

\* enroll_cb with the garbage collection it runs on FP_DEVICE_ERROR_DATA_FULL:
\* st is the state of the device, g the storage of the reader afterwards
enroll_cb_collect(st, g, error, list_ok, listed, sort_rand, dev_ok, save_ok) ==
  LET collect == error = "DATA_FULL" /\ HasFeature("STORAGE_LIST")
      g1 == IF collect THEN try_delete_print(g, list_ok, listed, sort_rand, dev_ok) ELSE g
  IN [st |-> enroll_cb(st, error, collect /\ g1.result = "TRUE", save_ok), g |-> g1]

\* what the reader and the store answer during this completion: the store is
\* asked only after an enroll that succeeded, the reader only when it is full
CollectInputs(error) ==
  IF error = "DATA_FULL" /\ HasFeature("STORAGE_LIST")
  THEN {[list_ok |-> TRUE, listed |-> l, sort_rand |-> r, dev_ok |-> d, save_ok |-> TRUE] :
          l \in Listings(gc.device), r \in [PrintKeys -> 1..MaxRand], d \in BOOLEAN}
       \cup {[list_ok |-> FALSE, listed |-> <<>>, sort_rand |-> [k \in PrintKeys |-> 1],
              dev_ok |-> TRUE, save_ok |-> TRUE]}
  ELSE {[list_ok |-> TRUE, listed |-> <<>>, sort_rand |-> [k \in PrintKeys |-> 1],
         dev_ok |-> TRUE, save_ok |-> ok] : ok \in IF error = OK THEN BOOLEAN ELSE {TRUE}}

EnrollCollectCb ==
  /\ fp.task = "enroll"
  /\ Ready
  /\ \E error \in EnrollErrors :
       \E i \in CollectInputs(error) :
         LET r == enroll_cb_collect(Cur, gc, error, i.list_ok, i.listed, i.sort_rand,
                                    i.dev_ok, i.save_ok)
         IN Commit(r.st, stack) /\ gc' = r.g
  /\ UNCHANGED <<alive, env, mgr, disk>>

\* a reader with or without the listing of its prints; the storage of a
\* reader that cannot list is never looked at
InitCollect ==
  /\ InitDevice
  /\ env \in Envs
  /\ host = env.store
  /\ mgr = fprint_manager_new(FALSE)
  /\ disk = NoDisk
  /\ \E device \in SUBSET DevicePrints, known \in SUBSET PrintKeys :
       /\ \A a, b \in device : a.key = b.key => a = b
       /\ ~HasFeature("STORAGE_LIST") => device = {} /\ known = {}
       /\ gc = [NoStorage EXCEPT !.device = device, !.host = Ascending(known, 1)]

\* one sender enrolling on a reader whose storage may be full
NextCollect ==
  \/ Claim("s1")
  \/ DevOpenCb
  \/ EnrollStart("s1")
  \/ EnrollProgressCb
  \/ EnrollIdentifyCb
  \/ EnrollCollectCb
  \/ Deliver

SpecCollect == InitCollect /\ [][NextCollect]_vars

\* the file backend on its own, starting with an empty storage path
InitStore ==
  /\ InitDevice
  /\ env \in {e \in Envs : e.store = {}}
  /\ host = env.store
  /\ mgr = fprint_manager_new(FALSE)
  /\ gc = NoStorage
  /\ disk = NoDisk

NextStore ==
  \/ PrintDataSave
  \/ PrintDataLoad
  \/ PrintDataDelete
  \/ DiscoverPrints
  \/ FileMoved
  \/ FileDamaged

SpecStore == InitStore /\ [][NextStore]_vars

Init ==
  /\ InitDevice
  /\ env \in Envs
  /\ host = env.store
  /\ mgr = fprint_manager_new(FALSE)
  /\ disk = NoDisk
  /\ gc = NoStorage

Next ==
  \/ \E s \in Senders : Claim(s)
  \/ \E s \in Senders : Release(s)
  \/ \E s \in Senders : VerifyStart(s)
  \/ \E s \in Senders : VerifyStop(s)
  \/ \E s \in Senders : EnrollStart(s)
  \/ \E s \in Senders : EnrollStop(s)
  \/ \E s \in Senders : ListEnrolledFingers(s)
  \/ \E s \in Senders : DeleteEnrolledFinger(s)
  \/ \E s \in Senders : DeleteEnrolledFingers2(s)
  \/ \E s \in Senders : DeleteEnrolledFingers(s)
  \/ DevOpenCb
  \/ DevCloseCb
  \/ MatchCb
  \/ VerifyCb
  \/ IdentifyCb
  \/ EnrollProgressCb
  \/ EnrollCb
  \/ EnrollIdentifyCb
  \/ VerifyStopWaitTimeout
  \/ \E name \in Senders : ClientVanished(name)
  \/ ReleaseResume
  \/ VanishedResume
  \/ VerifyStopResume
  \/ Deliver

Spec == Init /\ [][Next]_vars

NextMgr ==
  \/ DeviceAddedCb
  \/ DeviceRemovedCb
  \/ \E prepare_for_sleep \in BOOLEAN : PrepareForSleep(prepare_for_sleep)
  \/ SuspendCb
  \/ LogindSleepInhibitCb

SpecMgr == Init /\ [][NextMgr]_vars

\* the manager's devices, their clients and the idle-exit timer, started
\* with and without --no-timeout
InitIdle ==
  /\ InitDevice
  /\ env \in Envs
  /\ host = env.store
  /\ mgr \in {fprint_manager_new(no_timeout) : no_timeout \in BOOLEAN}
  /\ disk = NoDisk
  /\ gc = NoStorage

NextIdle ==
  \/ DeviceAddedCb
  \/ DeviceRemovedCb
  \/ DeviceClientAdded
  \/ DeviceClientVanished
  \/ OnTemperatureChanged
  \/ TimeoutCb
  \/ GetDevices
  \/ GetDefaultDevice

SpecIdle == InitIdle /\ [][NextIdle]_vars

(***************************************************************************)
(* Properties of the device                                                *)
(***************************************************************************)
ByGate == "action_authorization_handler"
IsReply(o, m) == o.t = "reply" /\ o.n = m
AllGranted == {"verify", "enroll", "setusername"}
Operations == {"ACTION_ENROLL", "ACTION_VERIFY", "ACTION_IDENTIFY"}

\* the Claim invocations that can reach fprint_device_claim
ClaimInvocations ==
  {[m |-> "Claim", s |-> s, arg |-> arg, user |-> user] :
     s \in Senders, arg \in UsernameArgs, user \in Users}

\* what C1 asks of one step
C1_ClaimStep ==
  /\ HasSession(priv) =>
       /\ \A s \in Senders, arg \in UsernameArgs, lookup_ok \in BOOLEAN, grant \in Grants :
            action_authorization_handler(priv, "Claim", s, arg, lookup_ok, grant).out
              = <<Reply("Claim", s, "AlreadyInUse", ByGate)>>
       /\ \A a \in ClaimInvocations :
            LET st == fprint_device_claim(Cur, a)
            IN /\ st.out = <<Reply("Claim", a.s, "AlreadyInUse", "fprint_device_claim")>>
               /\ st.p = priv /\ st.fp = fp /\ ~st.ab
  /\ \A i \in 1..Len(out') :
       (/\ IsReply(out'[i], "Claim")
        /\ out'[i].by \in {ByGate, "fprint_device_claim"}
        /\ HasSession(priv))
       => /\ out'[i].v = "AlreadyInUse"
          /\ priv'.session.sender = priv.session.sender
          /\ priv'.session.username = priv.session.username
  /\ (HasSession(priv') /\ <<priv'.session.sender, priv'.session.username>>
                             # <<priv.session.sender, priv.session.username>>)
       => ~HasSession(priv)

\* C1: while a Session exists, the authorization of a Claim (by any sender,
\* the claimant included) replies AlreadyInUse, and so does the Claim handler
\* itself when a Claim that passed the authorization reaches it, leaving the
\* device as it is; a Claim answered in a step that began with a Session is
\* answered AlreadyInUse with the Session unchanged; and no step makes a
\* Session for a new owner while one exists.
C1_OneSession == [][C1_ClaimStep]_vars

\* a Claim by another sender was refused while the claimant holds the Session
C1_Witness ==
  /\ priv.session.sender = "s1"
  /\ out = <<Reply("Claim", "s2", "AlreadyInUse", ByGate)>>

\* what C2 asks of one step
C2_ReleaseStep ==
  /\ \A i \in 1..Len(out') :
       (/\ IsReply(out'[i], "Release")
        /\ \/ out'[i].by = "dev_close_cb"
           \/ out'[i].by = "fprint_device_release" /\ out'[i].v = OK)
       => /\ out'[i].v \in {OK, "Internal"}
          /\ ~HasSession(priv')
          /\ priv'.current_action = "ACTION_NONE"
          /\ ~fp'.is_open
  /\ (Len(stack') > Len(stack) /\ stack'[Len(stack')].kind = "release")
       => /\ priv.current_cancellable # "null"
          /\ priv'.current_cancellable = "cancelled"
          /\ priv'.current_action = priv.current_action
          /\ priv'.session = priv.session
          /\ fp' = fp
  /\ (Len(stack') < Len(stack) /\ Top.kind = "release")
       => priv.current_action = "ACTION_NONE"
  /\ (fp'.task = "close" /\ fp.task # "close")
       => /\ fp.task = "none"
          /\ priv.current_cancellable = "null"
          /\ priv'.current_action = "ACTION_CLOSE"

\* C2: a step that replies to an accepted Release (from dev_close_cb, with
\* success or the close error, or from fprint_device_release when the Session
\* went away during its wait) leaves the reader closed, no Session and
\* Action None; a Release that finds an operation in flight cancels its token
\* and waits with the reader and Session untouched; its wait ends only when
\* Action is None; and the close is started only with no driver operation
\* running and no token left.
C2_ReleaseCloses == [][C2_ReleaseStep]_vars

\* the Release that waited for an operation is answered by dev_close_cb
C2_Witness ==
  /\ op.kind = "release"
  /\ \E i \in 1..Len(out) : IsReply(out[i], "Release") /\ out[i].by = "dev_close_cb"
  /\ ~HasSession(priv) /\ ~fp.is_open /\ priv.current_action = "ACTION_NONE"

ClaimedMethods == {"Release", "EnrollStart", "EnrollStop", "VerifyStart", "VerifyStop",
                   "DeleteEnrolledFinger", "DeleteEnrolledFingers2"}

\* C3: in every reachable state the authorization of a method that needs the
\* Claimed state answers, whatever the arguments and whatever polkit and the
\* bus would say, with the single reply ClaimDevice when there is no Session
\* and the single reply AlreadyInUse when the Session is another sender's: no
\* identity lookup, no polkit query and no signal goes out; and every such
\* reply seen on the bus is the only output of its step.
C3_ClaimStatePrecheck ==
  /\ \A m \in ClaimedMethods, s \in Senders :
       \A arg \in ArgsOf(m), lookup_ok \in BOOLEAN, grant \in Grants :
         LET r == action_authorization_handler(priv, m, s, arg, lookup_ok, grant)
         IN /\ ~HasSession(priv) => r.out = <<Reply(m, s, "ClaimDevice", ByGate)>>
            /\ (HasSession(priv) /\ priv.session.sender # s)
                 => r.out = <<Reply(m, s, "AlreadyInUse", ByGate)>>
  /\ \A i \in 1..Len(out) :
       (/\ out[i].t = "reply" /\ out[i].n \in ClaimedMethods /\ out[i].by = ByGate
        /\ out[i].v \in {"ClaimDevice", "AlreadyInUse"})
       => /\ Len(out) = 1
          /\ out[i].v = "ClaimDevice" <=> ~HasSession(priv)
          /\ out[i].v = "AlreadyInUse"
               => (priv.session.sender # out[i].s \/ priv.session.invocation # NoInv)

\* VerifyStart by another sender was refused while the claimant holds the Session
C3_Witness ==
  /\ priv.session.sender = "s1"
  /\ out = <<Reply("VerifyStart", "s2", "AlreadyInUse", ByGate)>>

StartHandlers == {"fprint_device_enroll_start", "fprint_device_verify_start",
                  "fprint_device_delete_enrolled_finger",
                  "fprint_device_delete_enrolled_fingers2",
                  "fprint_device_delete_enrolled_fingers"}

\* what the handlers of the starting methods do in this state for a call by s
\* that passed the authorization
StartHandlerResults(s) ==
  {[arg |-> arg, m |-> "EnrollStart",
    st |-> fprint_device_enroll_start(Cur, s, arg, dev_ok, {})] :
     arg \in env.fingers, dev_ok \in DeviceResults}
  \cup {[arg |-> arg, m |-> "VerifyStart",
         st |-> fprint_device_verify_start(Cur, s, arg, first)] :
          arg \in env.fingers, first \in host \cup {FpPrint("", FP_FINGER_UNKNOWN)}}
  \cup {[arg |-> arg, m |-> "DeleteEnrolledFinger",
         st |-> fprint_device_delete_enrolled_finger(Cur, s, arg, dev_ok, {})] :
          arg \in env.fingers, dev_ok \in DeviceResults}
  \cup {[arg |-> "left-thumb", m |-> "DeleteEnrolledFingers2",
         st |-> fprint_device_delete_enrolled_fingers2(Cur, s, dev_ok, {})] :
          dev_ok \in DeviceResults}
  \cup {[arg |-> "left-thumb", m |-> "DeleteEnrolledFingers",
         st |-> fprint_device_delete_enrolled_fingers(
                  Cur, [m |-> "DeleteEnrolledFingers", s |-> s, arg |-> "",
                        user |-> pw_name(s)], dev_ok, dev_ok, {})] :
          dev_ok \in DeviceResults}

\* the retry payload of the operation in flight
Payload(p) == <<p.current_action, p.current_cancellable, p.verify_data,
                p.identify_data, p.enroll_data>>

\* the errors(r) are the errors the handler result r may reply
BusyRefusal(errors(_)) ==
  /\ ~fp.misuse
  /\ (priv.current_action # "ACTION_NONE" /\ HasSession(priv)
      /\ priv.session.invocation = NoInv)
       => \A r \in StartHandlerResults(priv.session.sender) :
            /\ Len(r.st.out) = 1
            /\ r.st.out[1].t = "reply" /\ r.st.out[1].n = r.m
            /\ r.st.out[1].v \in errors(r)
            /\ Payload(r.st.p) = Payload(priv)
            /\ r.st.fp = fp /\ r.st.host = host /\ ~r.st.ab
  /\ \A i \in 1..Len(out) :
       (/\ out[i].t = "reply" /\ out[i].by \in StartHandlers /\ out[i].v # OK
        /\ priv.current_action # "ACTION_NONE")
       => out[i].v \in errors([arg |-> "any", m |-> out[i].n])
                       \cup errors([arg |-> "left-thumb", m |-> out[i].n])

AlreadyInUseOnly(r) == {"AlreadyInUse"}
NameCheckedFirst(r) ==
  IF r.m \in {"EnrollStart", "DeleteEnrolledFinger"}
     /\ finger_name_to_fp_finger(r.arg) = FP_FINGER_UNKNOWN
  THEN {"InvalidFingername"} ELSE {"AlreadyInUse"}

\* C4 as stated: no driver operation is started while another runs, and the
\* starting methods handled while Action is not None fail with AlreadyInUse
\* and leave Action, token and retry payload unchanged.
C4_Original == BusyRefusal(AlreadyInUseOnly)

\* C4 amended: as stated, except that EnrollStart and DeleteEnrolledFinger
\* given a name of no finger fail with InvalidFingername, the name being
\* checked before the busy test; Action, token and payload are unchanged in
\* both cases.
C4_OneOperation == BusyRefusal(NameCheckedFirst)

\* a second VerifyStart was refused while the verification it would disturb
\* is still running
C4_Witness ==
  /\ priv.current_action = "ACTION_VERIFY" /\ fp.task = "verify"
  /\ priv.current_cancellable = "live"
  /\ \E i \in 1..Len(out) :
       IsReply(out[i], "VerifyStart") /\ out[i].by = "fprint_device_verify_start"
       /\ out[i].v = "AlreadyInUse"

\* C5: since the successful Start of the current verify, identify or enroll
\* operation never more than one status signal with done=true has gone out,
\* and once the driver operation has completed exactly one has.
C5_OneDoneStatus ==
  /\ op.done <= 1
  /\ op.completed => op.done = 1 /\ op.kind \in {"verify", "enroll"}

\* a verification completed under a Release or a vanished claimant
C5_Witness ==
  /\ op.kind = "verify" /\ op.completed /\ op.done = 1
  /\ stack # <<>>

\* C6: since a successful VerifyStart exactly one VerifyFingerSelected has
\* gone out and no VerifyStatus went out before it; VerifyFingerSelected and
\* VerifyStatus go out only for an operation a successful VerifyStart began;
\* a step in which VerifyStart replies an error emits no signal at all.
C6_FingerSelectedOnce ==
  /\ op.kind = "verify" => op.sel = 1 /\ op.sel_first
  /\ (\E i \in 1..Len(out) : IsSelected(out[i]) \/ IsStatus(out[i]))
       => op.kind = "verify" /\ op.sel = 1
  /\ \A i \in 1..Len(out) :
       (IsReply(out[i], "VerifyStart") /\ out[i].v # OK)
         => \A j \in 1..Len(out) : out[j].t # "signal"

\* a VerifyStatus goes out after the VerifyFingerSelected of its operation
C6_Witness ==
  /\ op.kind = "verify" /\ op.sel = 1
  /\ \E i \in 1..Len(out) : IsStatus(out[i])
  /\ \A i \in 1..Len(out) : ~IsSelected(out[i])

\* C7: in the step in which VerifyStart replies success the VerifyFingerSelected
\* signal goes out before the reply.
C7_SelectedBeforeReply ==
  \A i \in 1..Len(out) :
    (IsReply(out[i], "VerifyStart") /\ out[i].v = OK)
      => \E j \in 1..(i - 1) : IsSelected(out[j])

\* the state a finished vanish handler leaves in which a Claim of every other
\* sender, authorized by polkit, takes the Session and is answered with
\* success when the reader opens
VanishDone(name) ==
  /\ ~HasSession(priv) /\ ~fp.is_open /\ priv.current_action = "ACTION_NONE"
  /\ \A s \in Senders \ {name} :
       LET r == action_authorization_handler(priv, "Claim", s, "", TRUE, AllGranted)
           st1 == fprint_device_claim(Cur, [m |-> "Claim", s |-> s, arg |-> "",
                                            user |-> r.user])
           st2 == dev_open_cb([st1 EXCEPT !.out = <<>>], TRUE)
       IN /\ r.error = OK
          /\ st1.p.session.sender = s /\ st1.fp.task = "open" /\ ~st1.fp.misuse
          /\ st2.out = <<Reply("Claim", s, OK, "dev_open_cb")>>
          /\ st2.p.session.sender = s /\ st2.fp.is_open
          /\ st2.p.current_action = "ACTION_NONE"

\* what C8 asks of one step
C8_VanishStep ==
  /\ \A name \in alive \ alive' :
       (priv.session.sender = name /\ priv.current_action \in Operations)
       => IF priv.current_cancellable = "null"
          THEN VanishDone(name)'
          ELSE /\ priv'.current_cancellable = "cancelled"
               /\ stack' = Append(stack, Frame("vanished", Inv("", name),
                                               priv.current_action))
               /\ priv'.session = priv.session
               /\ priv'.current_action = priv.current_action
               /\ fp' = fp
  /\ \A name \in Senders :
       (/\ Len(stack') < Len(stack)
        /\ Top.kind = "vanished" /\ Top.inv.s = name /\ Top.action \in Operations)
       => /\ priv.current_action = "ACTION_NONE"
          /\ VanishDone(name)'

\* C8: when the claimant's name vanishes during an enroll, verify or identify
\* whose token is still set, the step cancels the token and starts waiting
\* with the Session and the reader untouched; the wait ends only when Action
\* is None, and the step that ends it (or the vanish step itself when the
\* driver operation had already completed) leaves the reader closed and no
\* Session, and a Claim of another sender then succeeds.
C8_VanishedClaimant == [][C8_VanishStep]_vars

\* the vanish handler that waited for the operation has closed the reader
C8_Witness ==
  /\ op.kind = "vanished"
  /\ ~HasSession(priv) /\ ~fp.is_open /\ priv.current_action = "ACTION_NONE"

(***************************************************************************)
(* Properties of the stop handlers                                         *)
(***************************************************************************)
\* the session owner may stop a verification that reported its final status
\* and whose driver operation has not completed
SettleCase ==
  /\ HasSession(priv) /\ priv.session.invocation = NoInv
  /\ priv.session.verify_status_reported
  /\ can_stop_action(priv, "ACTION_VERIFY") = OK
  /\ verify_has_completed(priv) = "FALSE"

\* a VerifyStop waits for the driver: its timer is pending, it is unanswered
\* and the token is not cancelled
SettleWindow(inv) ==
  /\ \E i \in 1..Len(stack) : stack[i].kind = "verify_stop" /\ stack[i].inv = inv
  /\ priv.current_cancel_invocation = inv
  /\ priv.verify_stop_wait_timeout_id # 0
  /\ priv.current_cancellable = "live"

StopInvocations == {[m |-> "VerifyStop", s |-> s, n |-> n] : s \in Senders, n \in Serials}

\* cancellers: the handlers that may cancel the token during the settle window
SettleStep(cancellers) ==
  /\ SettleCase =>
       LET inv == NewInvocation("VerifyStop", priv.session.sender)
           st == fprint_device_verify_stop(Cur, inv)
       IN IF priv.verify_stop_wait_timeout_id # 0 THEN st.ab
          ELSE /\ ~st.ab /\ st.out = <<>>
               /\ st.p.current_cancellable = "live"
               /\ st.p.verify_stop_wait_timeout_id # 0
               /\ st.p.current_cancel_invocation = inv
               /\ st.push = Frame("verify_stop", inv, priv.current_action)
  /\ \A inv \in StopInvocations :
       /\ (SettleWindow(inv) /\ priv'.current_cancellable = "cancelled")
            => /\ Len(stack') > Len(stack)
               /\ stack'[Len(stack')].kind \in cancellers
       /\ (SettleWindow(inv) /\ priv'.current_cancellable = "null")
            => /\ \E i \in 1..Len(out') :
                    out'[i] = ReplyTo(inv, OK, "stoppable_action_completed")
               /\ \A i \in 1..Len(out') : out'[i].t # "signal"
               /\ priv'.current_cancel_invocation = NoInv
               /\ priv'.current_action = "ACTION_NONE"
       /\ (/\ Len(stack') < Len(stack) /\ Top.kind = "verify_stop" /\ Top.inv = inv
           /\ priv.current_cancel_invocation = inv
           /\ priv.current_cancellable = "live" /\ ~aborted')
            => /\ priv.verify_stop_wait_timeout_id = 0
               /\ priv'.current_cancellable = "cancelled"
               /\ priv'.current_cancel_invocation = inv
               /\ out' = <<>>
  /\ \A i \in 1..Len(out') :
       (IsReply(out'[i], "VerifyStop") /\ out'[i].v = OK)
       => /\ out'[i].by = "stoppable_action_completed"
          /\ priv'.current_cancellable = "null"
          /\ fp'.task \notin {"verify", "identify"}

StopMethods == {"VerifyStop", "EnrollStop"}
DriverOperations == {"verify", "identify", "enroll", "enroll_identify"}
\* o completes the invocation
Answers(o, invocation) ==
  /\ o.t = "reply" /\ o.n = invocation.m /\ o.s = invocation.s /\ o.id = invocation.n

\* a Stop is answered with success only by the completion, in the state C13 names
StopReplyStep ==
  \A i \in 1..Len(out') :
    (out'[i].t = "reply" /\ out'[i].n \in StopMethods /\ out'[i].v = OK)
    => /\ out'[i].by = "stoppable_action_completed"
       /\ fp'.task \notin DriverOperations
       /\ priv'.current_action = "ACTION_NONE"
       /\ priv'.current_cancellable = "null"
       /\ priv'.current_cancel_invocation = NoInv
       /\ HasSession(priv') /\ ~priv'.session.verify_status_reported

\* a Stop taken in charge cancels the token or waits in the settle window
StopAcceptStep ==
  (priv.current_cancel_invocation = NoInv /\ priv'.current_cancel_invocation # NoInv)
  => /\ priv'.current_cancel_invocation.m \in StopMethods
     /\ priv'.current_cancel_invocation.s = priv.session.sender
     /\ \/ priv'.current_cancellable = "cancelled"
        \/ /\ priv'.current_cancellable = "live"
           /\ stack' = Append(stack, Frame("verify_stop", priv'.current_cancel_invocation,
                                           priv.current_action))

\* a Stop taken in charge stays pending until it is answered
StopKeptStep ==
  (priv.current_cancel_invocation # NoInv
   /\ priv'.current_cancel_invocation # priv.current_cancel_invocation)
  => \E i \in 1..Len(out') :
       Answers(out'[i], priv.current_cancel_invocation) /\ out'[i].v = OK

\* C13: EnrollStop and VerifyStop are answered with success only by
\* stoppable_action_completed, in a step that leaves no driver operation
\* running, Action None, no token, no pending stop invocation and the
\* verify-status-reported flag false; a Stop taken in charge cancels the token
\* (or waits in the settle window) and stays the pending stop invocation until
\* the step that answers it.
C13_StopReplies == [][StopReplyStep /\ StopAcceptStep /\ StopKeptStep]_vars

\* the Actions a Stop method stops
StoppedBy(m) == IF m = "EnrollStop" THEN {"ACTION_ENROLL"}
                ELSE {"ACTION_VERIFY", "ACTION_IDENTIFY"}
StopHandlerName(m) == IF m = "EnrollStop" THEN "fprint_device_enroll_stop"
                      ELSE "fprint_device_verify_stop"
\* what the handler of the Stop method m does in this state for the claimant
StopHandler(m) ==
  IF m = "EnrollStop" THEN fprint_device_enroll_stop(Cur, priv.session.sender)
  ELSE fprint_device_verify_stop(Cur, NewInvocation("VerifyStop", priv.session.sender))
\* the error C14 names for a Stop method in this state, "" when it is accepted
StopError(m) ==
  IF priv.current_action = "ACTION_NONE" THEN "NoActionInProgress"
  ELSE IF priv.current_action \notin StoppedBy(m) THEN "AlreadyInUse"
  ELSE IF priv.current_cancel_invocation # NoInv THEN "AlreadyInUse"
  ELSE OK

\* C14: in every reachable state in which the claimant's calls pass the
\* authorization, the handlers of EnrollStop and VerifyStop reject the call
\* with NoActionInProgress when Action is None and with AlreadyInUse when
\* another action is in progress or a Stop is pending, changing nothing, and
\* otherwise reply no error; and every error reply of these handlers seen on
\* the bus is the only output of its step and is the error named for the
\* state, the pending stop invocation and the token being as they were.
C14_StopRejected ==
  /\ (HasSession(priv) /\ priv.session.invocation = NoInv) =>
       \A m \in StopMethods :
         LET st == StopHandler(m)
         IN IF StopError(m) # OK
            THEN /\ st.out = <<Reply(m, priv.session.sender, StopError(m),
                                     StopHandlerName(m))>>
                 /\ st.p = priv /\ st.fp = fp /\ st.host = host
                 /\ ~st.ab /\ st.push = NoFrame /\ ~st.completed
            ELSE \A i \in 1..Len(st.out) : st.out[i].t = "reply" => st.out[i].v = OK
  /\ \A i \in 1..Len(out) :
       (out[i].t = "reply" /\ out[i].n \in StopMethods
        /\ out[i].by = StopHandlerName(out[i].n))
       => /\ Len(out) = 1
          /\ out[i].v = StopError(out[i].n)
          /\ out[i].v # OK

\* a second VerifyStop was rejected while the first is pending: the token is
\* cancelled and the first invocation is still the pending one
C14_Witness ==
  /\ out = <<Reply("VerifyStop", "s1", "AlreadyInUse", "fprint_device_verify_stop")>>
  /\ priv.current_action = "ACTION_VERIFY"
  /\ priv.current_cancel_invocation = Inv("VerifyStop", "s1")
  /\ priv.current_cancellable = "cancelled"

\* the terminal status of the current operation is out and its driver
\* completion has run
OperationEnded == op.completed /\ op.done = 1 /\ op.kind \in {"verify", "enroll"}
\* the Stop method of an Action
StopOf(action) == IF action = "ACTION_ENROLL" THEN "EnrollStop" ELSE "VerifyStop"

\* C15 as stated: once the terminal status is out and the driver completion
\* has run, Action is None and a Start is not refused as busy.
C15_Original ==
  OperationEnded => priv.current_action = "ACTION_NONE" /\ can_start_action(priv) = OK

\* C15 amended: once the terminal status is out and the driver completion has
\* run, Action is None only if a Stop was pending or the token was cancelled
\* when the completion ran; otherwise Action stays as it is with the token
\* cleared and no Stop pending, a Start is refused with AlreadyInUse, and the
\* claimant's Stop method replies success at once and leaves Action None, so
\* that a Start is accepted after it.
C15_IdleAfterStop ==
  (OperationEnded /\ priv.current_action \in Operations)
  => /\ HasSession(priv) /\ priv.session.invocation = NoInv
     /\ priv.current_cancellable = "null"
     /\ priv.current_cancel_invocation = NoInv
     /\ fp.task \notin DriverOperations
     /\ can_start_action(priv) = "AlreadyInUse"
     /\ LET m == StopOf(priv.current_action)
            st == StopHandler(m)
        IN /\ ~st.ab /\ st.push = NoFrame
           /\ Len(st.out) = 1 /\ st.out[1].t = "reply" /\ st.out[1].n = m
           /\ st.out[1].v = OK /\ st.out[1].s = priv.session.sender
           /\ st.p.current_action = "ACTION_NONE"
           /\ can_start_action(st.p) = OK

\* a verification ended without a Stop and a following VerifyStart was refused
C15_Witness ==
  /\ OperationEnded /\ priv.current_action = "ACTION_VERIFY"
  /\ priv.current_cancellable = "null"
  /\ \E i \in 1..Len(out) :
       out[i] = Reply("VerifyStart", priv.session.sender, "AlreadyInUse",
                      "fprint_device_verify_start")

(***************************************************************************)
(* Properties of the authorization                                         *)
(***************************************************************************)
UserMethods == {"Claim", "DeleteEnrolledFingers", "ListEnrolledFingers"}
SetUsernameAsked(seq, s) ==
  \E i \in 1..Len(seq) : seq[i].t = "polkit" /\ seq[i].n = "setusername" /\ seq[i].s = s
SetUsernameGranted(seq, s) ==
  \E i \in 1..Len(seq) : seq[i] = Query("setusername", s, TRUE)
\* the users the call of s may act for, given what polkit answered in seq
MayActFor(seq, s) ==
  IF SetUsernameGranted(seq, s) THEN Users ELSE {pw_name(s)}
ListedFingers(h, user) ==
  {fp_finger_to_name(x.finger) : x \in load_user_prints(h, user)}

\* what _fprint_device_check_for_username answers; it reads nothing of the device
UsernameChecked ==
  \A s \in Senders, arg \in UsernameArgs, lookup_ok \in BOOLEAN, grant \in Grants :
    LET r == fprint_device_check_for_username(s, arg, lookup_ok, grant)
    IN /\ r.error = OK =>
            /\ r.user \in MayActFor(r.out, s)
            /\ r.user # pw_name(s) => r.user = arg /\ "setusername" \in grant
       /\ r.error # OK => r.user = ""
       /\ arg = "" => ~SetUsernameAsked(r.out, s) /\ r.user \in {"", pw_name(s)}

\* what C16 asks of one step
C16_UserStep ==
  /\ priv = fprint_device_init => UsernameChecked
  /\ (HasSession(priv') /\ priv'.session.sender # priv.session.sender)
       => priv'.session.username \in MayActFor(out', priv'.session.sender)
  /\ priv'.session.sender = priv.session.sender
       => priv'.session.username = priv.session.username
  /\ \A i \in 1..Len(out') :
       /\ (out'[i].t = "reply" /\ out'[i].by = "fprint_device_list_enrolled_fingers")
            => \E user \in MayActFor(out', out'[i].s) :
                 IF out'[i].v = OK THEN out'[i].data = ListedFingers(host, user)
                 ELSE ListedFingers(host, user) = {}
       /\ (out'[i].t = "reply" /\ out'[i].by = "fprint_device_delete_enrolled_fingers")
            => \E user \in MayActFor(out', out'[i].s) :
                 \A x \in host \ host' : x.user = user

\* C16: the authorization of Claim, ListEnrolledFingers and legacy
\* DeleteEnrolledFingers attaches to the call the caller's own user name, or
\* the name asked for when polkit granted setusername to the caller in that
\* call, and asks polkit nothing about setusername when the argument is
\* empty; the Session a Claim creates carries a user the call may act for and
\* keeps it; ListEnrolledFingers answers with the prints of such a user and
\* DeleteEnrolledFingers deletes prints of such a user only.
C16_ActingUser == [][C16_UserStep]_vars

\* a Claim for another user was accepted after polkit granted setusername
C16_Witness ==
  /\ priv.session.sender = "s1" /\ priv.session.username = "u2"
  /\ SetUsernameGranted(out, "s1")

\* the place of a permission in the flags class
PermissionValue(a) == CHOOSE i \in 1..Len(PermissionOrder) : PermissionOrder[i] = a
IsPolkit(o) == o.t = "polkit"
PolkitAt(seq) == {i \in 1..Len(seq) : IsPolkit(seq[i])}
NoPermissionMethods == {"Release", "EnrollStop", "VerifyStop"}

\* what fprint_device_check_polkit_for_permissions does; it reads nothing of
\* the device
PermissionsChecked ==
  \A permissions \in SUBSET AllGranted, grant \in SUBSET AllGranted, s \in Senders :
    LET r == fprint_device_check_polkit_for_permissions(permissions, s, grant)
    IN /\ r.ok <=> (permissions = {} \/ permissions \cap grant # {})
       /\ permissions = {} => r.out = <<>>
       /\ \A i \in 1..Len(r.out) :
            /\ IsPolkit(r.out[i]) /\ r.out[i].s = s /\ r.out[i].n \in permissions
            /\ r.out[i].v = "yes" <=> r.out[i].n \in grant
            /\ r.out[i].v = "yes" => i = Len(r.out)
            /\ \A j \in 1..(i - 1) :
                 PermissionValue(r.out[j].n) < PermissionValue(r.out[i].n)
       /\ \A a \in permissions :
            (\A b \in permissions : PermissionValue(b) < PermissionValue(a) => b \notin grant)
            => \E i \in 1..Len(r.out) : r.out[i].n = a

\* C17: the permission check permits exactly when no permission is required
\* or one of the required ones is granted; it asks polkit about the required
\* permissions in ascending value, every one before the first granted one and
\* none after it; Claim requires verify or enroll, and Release, EnrollStop and
\* VerifyStop require none; on the bus, a Claim is refused PermissionDenied by
\* the permission check only after verify and enroll were both denied, a
\* Session is created only after one of them was granted, and a step that
\* answers Release, EnrollStop or VerifyStop asks polkit nothing.
C17_FirstPermit ==
  /\ priv = fprint_device_init => PermissionsChecked
  /\ get_permissions_for_invocation("Claim") = {"verify", "enroll"}
  /\ \A m \in NoPermissionMethods : get_permissions_for_invocation(m) = {}
  /\ \A i \in 1..Len(out) :
       /\ (out[i] = Reply("Claim", out[i].s, "PermissionDenied", ByGate)
           /\ ~SetUsernameAsked(out, out[i].s))
            => /\ i >= 3
               /\ out[i - 2] = Query("verify", out[i].s, FALSE)
               /\ out[i - 1] = Query("enroll", out[i].s, FALSE)
       /\ (out[i].t = "reply" /\ out[i].n \in NoPermissionMethods) => PolkitAt(out) = {}
  /\ (fp.task = "open" /\ out # <<>> /\ \A i \in 1..Len(out) : out[i].t # "reply")
       => \/ out[Len(out)] = Query("verify", priv.session.sender, TRUE)
          \/ /\ Len(out) >= 2
             /\ out[Len(out) - 1] = Query("verify", priv.session.sender, FALSE)
             /\ out[Len(out)] = Query("enroll", priv.session.sender, TRUE)

\* a Claim was accepted with verify denied and enroll granted
C17_Witness ==
  /\ priv.session.sender = "s1" /\ fp.task = "open"
  /\ out = <<Lookup("s1", TRUE), Query("verify", "s1", FALSE), Query("enroll", "s1", TRUE)>>

RejectionErrors == {"PermissionDenied", "ClaimDevice", "AlreadyInUse", "InvalidFingername"}
IsRejection(o) == o.t = "reply" /\ o.v \in RejectionErrors

\* C18: a step that answers a call with PermissionDenied, ClaimDevice,
\* AlreadyInUse or InvalidFingername answers nothing else and emits no signal,
\* and leaves the device (Session, Action, token, pending stop invocation,
\* retry payload, clients), the reader, the store, the waiting handlers and
\* the watched names as they were.
C18_RejectionFrame ==
  [][(\E i \in 1..Len(out') : IsRejection(out'[i]))
       => /\ priv' = priv /\ fp' = fp /\ host' = host
          /\ stack' = stack /\ alive' = alive /\ aborted' = aborted
          /\ \A j \in 1..Len(out') : out'[j].t # "signal"
          /\ Cardinality({j \in 1..Len(out') : out'[j].t = "reply"}) = 1]_vars

\* an EnrollStart of the claimant was refused by polkit during a verification
C18_Witness ==
  /\ priv.current_action = "ACTION_VERIFY" /\ priv.current_cancellable = "live"
  /\ fp.task = "verify" /\ priv.verify_data # {}
  /\ out = <<Query("enroll", priv.session.sender, FALSE),
             Reply("EnrollStart", priv.session.sender, "PermissionDenied", ByGate)>>

(***************************************************************************)
(* Properties of enrollment and the store                                  *)
(***************************************************************************)
EnrollCompleted == Signal("EnrollStatus", "enroll-completed", TRUE)
EnrollFailed == Signal("EnrollStatus", "enroll-failed", TRUE)
Emitted(seq, o) == \E i \in 1..Len(seq) : seq[i] = o
\* the answer of ListEnrolledFingers for the Session's user in this state
ListedNow ==
  fprint_device_list_enrolled_fingers(
    Cur, [m |-> "ListEnrolledFingers", s |-> priv.session.sender, arg |-> "",
          user |-> priv.session.username]).out

\* C19: in the step that emits EnrollStatus(enroll-completed, done=true) the
\* store holds a print of the Session's user for the finger of the EnrollStart,
\* and ListEnrolledFingers for that user answers with a list holding the
\* finger's name; and whenever a capture is running, its successful
\* completion emits enroll-completed with the print stored when the save
\* succeeds, and enroll-failed with the store unchanged when the save fails.
C19_CompletedIsStored ==
  /\ Emitted(out, EnrollCompleted) =>
       /\ HasSession(priv) /\ op.kind = "enroll"
       /\ priv.enroll_data \in FP_FINGER_FIRST..FP_FINGER_LAST
       /\ print_data_load(host, priv.enroll_data, priv.session.username)
            = {FpPrint(priv.session.username, priv.enroll_data)}
       /\ Len(ListedNow) = 1 /\ ListedNow[1].v = OK
       /\ fp_finger_to_name(priv.enroll_data) \in ListedNow[1].data
  /\ (fp.task = "enroll" /\ ~aborted) =>
       LET saved == enroll_cb(Cur, OK, FALSE, TRUE)
           unsaved == enroll_cb(Cur, OK, FALSE, FALSE)
       IN /\ Emitted(saved.out, EnrollCompleted) /\ ~Emitted(saved.out, EnrollFailed)
          /\ saved.host = host \cup {FpPrint(priv.session.username, priv.enroll_data)}
          /\ Emitted(unsaved.out, EnrollFailed) /\ ~Emitted(unsaved.out, EnrollCompleted)
          /\ unsaved.host = host

\* an enrollment on the empty store has completed
C19_Witness ==
  /\ Emitted(out, EnrollCompleted)
  /\ env.store = {} /\ host = {FpPrint(priv.session.username, priv.enroll_data)}

\* a handler's result as the state the next handler of the same client finds
Handled(st) == [st EXCEPT !.out = <<>>, !.completed = FALSE, !.started = "none",
                          !.push = NoFrame]
Idle ==
  /\ HasSession(priv) /\ priv.current_action = "ACTION_NONE"
  /\ fp.is_open /\ fp.task = "none" /\ stack = <<>> /\ ~aborted
Slot(h, name) ==
  print_data_load(h, finger_name_to_fp_finger(name), priv.session.username)
\* the claimant enrolls the finger, the capture succeeds and is saved, the
\* claimant stops the enrollment and deletes the finger, nothing else happens
EnrollThenDelete(name) ==
  LET s == priv.session.sender
      a == fprint_device_enroll_start(Cur, s, name, TRUE, {})
      b == IF a.fp.task = "enroll_identify"
           THEN enroll_identify_cb(Handled(a), OK, FALSE, FALSE, TRUE)
           ELSE a
      c == enroll_cb(Handled(b), OK, FALSE, TRUE)
      d == fprint_device_enroll_stop(Handled(c), s)
      e == fprint_device_delete_enrolled_finger(Handled(d), s, name, TRUE, {})
  IN [started |-> Emitted(a.out, Reply("EnrollStart", s, OK, "fprint_device_enroll_start")),
      completed |-> Emitted(c.out, EnrollCompleted),
      stopped |-> Emitted(d.out, Reply("EnrollStop", s, OK, "stoppable_action_completed")),
      deleted |-> Emitted(e.out, Reply("DeleteEnrolledFinger", s, OK,
                                       "fprint_device_delete_enrolled_finger")),
      ab |-> a.ab \/ b.ab \/ c.ab \/ d.ab \/ e.ab,
      enrolled |-> Slot(c.host, name),
      after |-> Slot(e.host, name)]
RoundTrip(name) ==
  LET t == EnrollThenDelete(name)
  IN Idle /\ t.started /\ t.completed /\ t.deleted /\ ~t.ab

\* C20 as stated: after an enroll that ends with enroll-completed and a
\* following successful DeleteEnrolledFinger of the same finger, the slot of
\* (Session user, finger) holds what it held before the EnrollStart.
C20_Original ==
  \A name \in env.fingers :
    RoundTrip(name) => EnrollThenDelete(name).after = Slot(host, name)

\* C20 amended: after the enroll and the successful delete the slot is empty,
\* which is what it held before the EnrollStart only if it was empty then: an
\* EnrollStart that is accepted has already emptied the slot, and a
\* DeleteEnrolledFinger that succeeds leaves it empty, whatever the results of
\* the reader and of the store.
C20_SlotEmptied ==
  /\ \A name \in env.fingers :
       RoundTrip(name) =>
         LET t == EnrollThenDelete(name)
         IN /\ t.stopped
            /\ t.enrolled = {FpPrint(priv.session.username,
                                     finger_name_to_fp_finger(name))}
            /\ t.after = {}
            /\ (t.after = Slot(host, name)) <=> (Slot(host, name) = {})
  /\ Idle =>
       \A name \in env.fingers, dev_ok \in DeviceResults :
       \A failing \in StoreFailures(priv.session.username,
                                    finger_name_to_fp_finger(name)) :
         LET s == priv.session.sender
             a == fprint_device_enroll_start(Cur, s, name, dev_ok, failing)
             e == fprint_device_delete_enrolled_finger(Cur, s, name, dev_ok, failing)
         IN /\ Emitted(a.out, Reply("EnrollStart", s, OK, "fprint_device_enroll_start"))
                 => Slot(a.host, name) = {}
            /\ Emitted(e.out, Reply("DeleteEnrolledFinger", s, OK,
                                    "fprint_device_delete_enrolled_finger"))
                 => Slot(host, name) # {} /\ Slot(e.host, name) = {}

\* the claimant can enroll and delete a finger whose slot holds a print
C20_Witness ==
  \E name \in env.fingers : RoundTrip(name) /\ Slot(host, name) # {}

(***************************************************************************)
(* Properties of listing and deleting                                      *)
(***************************************************************************)
ListBy == "fprint_device_list_enrolled_fingers"
\* the names of the finger slots in which the store has a print of user
SlotNames(h, user) ==
  {FINGERS_NAMES[f] : f \in {g \in FP_FINGER_FIRST..FP_FINGER_LAST :
                               print_data_load(h, g, user) # {}}}
ListCall(s, user) ==
  fprint_device_list_enrolled_fingers(
    Cur, [m |-> "ListEnrolledFingers", s |-> s, arg |-> "", user |-> user])

\* C21: in every state, whoever holds the Session, the claim test of
\* g-authorize-method lets ListEnrolledFingers of every sender pass, and the
\* call of a sender polkit grants everything is authorized (evaluated where
\* no bus name is watched: the other tests read nothing of the device); the
\* handler leaves the Session, the Action, the reader and the store as they
\* are and sends one reply: the names of the finger slots in which the store
\* has a print of the resolved user, or NoEnrolledPrints when there is none.
C21_ListAnytime ==
  ~aborted =>
    \A s \in Senders :
      /\ fprint_device_check_claimed(priv, "ListEnrolledFingers", s) = OK
      /\ priv.clients = {} =>
           \A arg \in UsernameArgs :
             action_authorization_handler(priv, "ListEnrolledFingers", s, arg, TRUE,
                                          {"verify", "enroll", "setusername"}).error = OK
      /\ \A user \in Users :
           LET st == ListCall(s, user)
               names == SlotNames(host, user)
           IN /\ st.p.session = priv.session
              /\ st.p.current_action = priv.current_action
              /\ st.p = [priv EXCEPT !.clients = @ \cup {s}]
              /\ st.fp = fp /\ st.host = host /\ ~st.ab /\ st.push = NoFrame
              /\ Len(st.out) = 1
              /\ st.out[1] = IF names = {}
                             THEN Reply("ListEnrolledFingers", s, "NoEnrolledPrints", ListBy)
                             ELSE ReplyData("ListEnrolledFingers", s, names, ListBy)

\* a sender that does not hold the Session was answered with a list
C21_Witness ==
  /\ priv.session.sender = "s1"
  /\ \E i \in 1..Len(out) :
       /\ out[i].t = "reply" /\ out[i].by = ListBy /\ out[i].s = "s2"
       /\ out[i].v = OK /\ out[i].data = SlotNames(host, "u1") /\ out[i].data # {}

(***************************************************************************)
(* Properties of VerifyStart                                               *)
(***************************************************************************)
\* names that finger_name_to_fp_finger maps to FP_FINGER_UNKNOWN
UnknownNames == {"any", "", "toe"}
Gallery == load_user_prints(host, priv.session.username)
\* the claimant's VerifyStart would get past the claim and the busy test
MayStart ==
  /\ ~aborted /\ HasSession(priv)
  /\ fprint_device_check_claimed(priv, "VerifyStart", priv.session.sender) = OK
  /\ can_start_action(priv) = OK
VerifyStartCall(name, first) ==
  fprint_device_verify_start(Cur, priv.session.sender, name, first)
Identifying(st) ==
  /\ st.p.current_action = "ACTION_IDENTIFY"
  /\ st.p.identify_data = Gallery
  /\ st.p.verify_data = priv.verify_data
  /\ st.fp.task = "identify"
VerifyStartDone(st, name) ==
  st.out = <<Reply("VerifyStart", priv.session.sender, OK, "fprint_device_verify_start"),
             Signal("VerifyFingerSelected", name, FALSE)>>

\* C22 as stated: on a reader that supports identify, VerifyStart with an
\* unknown finger by the claimant whose user has at least one print starts an
\* identify against all prints of that user.
C22_Original ==
  (MayStart /\ HasFeature("IDENTIFY") /\ Gallery # {}) =>
    \A name \in UnknownNames, first \in Gallery :
      Identifying(VerifyStartCall(name, first))

\* C22 amended: it does so when the user has at least two prints, and then
\* announces the finger "any"; with exactly one print the Action becomes
\* Verify, not Identify.
C22_IdentifyGallery ==
  (MayStart /\ HasFeature("IDENTIFY")) =>
    \A name \in UnknownNames, first \in Gallery :
      LET st == VerifyStartCall(name, first)
      IN /\ finger_name_to_fp_finger(name) = FP_FINGER_UNKNOWN
         /\ Cardinality(Gallery) >= 2 =>
              /\ Identifying(st) /\ VerifyStartDone(st, "any")
              /\ st.p.current_cancellable = "live"
         /\ Cardinality(Gallery) = 1 =>
              /\ st.p.current_action = "ACTION_VERIFY"
              /\ st.p.identify_data = priv.identify_data
              /\ st.fp.task = "verify"

\* an identify against the two prints of the claimant's user has been started
C22_Witness ==
  /\ priv.current_action = "ACTION_IDENTIFY" /\ fp.task = "identify"
  /\ Cardinality(Gallery) = 2 /\ priv.identify_data = Gallery
  /\ Emitted(out, Reply("VerifyStart", priv.session.sender, OK,
                        "fprint_device_verify_start"))
  /\ Emitted(out, Signal("VerifyFingerSelected", "any", FALSE))

\* C23: VerifyStart with an unknown finger by the claimant whose user has
\* exactly one print starts a verify of that print, whether or not the
\* reader supports identify, and announces the name of that print's finger
\* after the reply; the name is one of the ten finger names, never "any".
C23_SinglePrint ==
  (MayStart /\ Cardinality(Gallery) = 1) =>
    \A name \in UnknownNames, first \in Gallery :
      LET st == VerifyStartCall(name, first)
      IN /\ st.p.current_action = "ACTION_VERIFY"
         /\ st.p.verify_data = {first}
         /\ st.p.identify_data = priv.identify_data
         /\ st.p.current_cancellable = "live"
         /\ st.fp.task = "verify"
         /\ first.finger \in FP_FINGER_FIRST..FP_FINGER_LAST
         /\ VerifyStartDone(st, FINGERS_NAMES[first.finger])
         /\ ~Emitted(st.out, Signal("VerifyFingerSelected", "any", FALSE))

\* on a reader that supports identify, a verify of the only print of the
\* claimant's user has been started; no client passes the name of its finger
C23_Witness ==
  /\ HasFeature("IDENTIFY")
  /\ priv.current_action = "ACTION_VERIFY" /\ fp.task = "verify"
  /\ Cardinality(Gallery) = 1 /\ priv.verify_data = Gallery
  /\ \E x \in Gallery :
       /\ FINGERS_NAMES[x.finger] \notin env.fingers
       /\ Emitted(out, Signal("VerifyFingerSelected", FINGERS_NAMES[x.finger], FALSE))
  /\ op.kind = "verify" /\ op.sel = 1

(***************************************************************************)
(* Properties of the duplicate check of EnrollStart                        *)
(***************************************************************************)
EnrollDuplicate == Signal("EnrollStatus", "enroll-duplicate", TRUE)
StagePassed == Signal("EnrollStatus", "enroll-stage-passed", FALSE)
IsEnrollStatus(o) == o.t = "signal" /\ o.n = "EnrollStatus"
EnrollStatuses(seq) == {i \in 1..Len(seq) : IsEnrollStatus(seq[i])}
\* the identify of an EnrollStart is running for a Session
DuplicateCheck == fp.task = "enroll_identify" /\ ~aborted /\ HasSession(priv)
\* the handler ended the enroll with enroll-duplicate: nothing captured or saved
EndsDuplicate(st) ==
  /\ \E i \in 1..Len(st.out) : st.out[i] = EnrollDuplicate /\ EnrollStatuses(st.out) = {i}
  /\ st.fp.task = "none" /\ st.fp.template = {} /\ st.host = host
  /\ st.completed
\* the handler announced enroll-stage-passed and started the capture
StartsCapture(st) ==
  /\ st.out = <<StagePassed>>
  /\ st.fp.task = "enroll"
  /\ st.fp.template = {FpPrint(priv.session.username, priv.enroll_data)}
  /\ st.host = host /\ ~st.completed
\* what holds of the identify whatever it returns
IdentifyFirst ==
  /\ (MayStart /\ HasFeature("IDENTIFY")) =>
       \A name \in env.fingers, dev_ok \in DeviceResults :
         LET s == priv.session.sender
             st == fprint_device_enroll_start(Cur, s, name, dev_ok, {})
         IN Emitted(st.out, Reply("EnrollStart", s, OK, "fprint_device_enroll_start"))
              => /\ st.fp.task = "enroll_identify" /\ st.fp.gallery = st.host
                 /\ st.fp.template = {} /\ EnrollStatuses(st.out) = {}
  /\ DuplicateCheck =>
       /\ HasFeature("IDENTIFY") /\ fp.gallery = host
       /\ priv.current_action = "ACTION_ENROLL"
       /\ \A found \in BOOLEAN, dev_ok \in BOOLEAN :
            EndsDuplicate(enroll_identify_cb(Cur, OK, TRUE, found, dev_ok))
       /\ \A error \in RetryErrors, found \in BOOLEAN, dev_ok \in BOOLEAN :
            LET st == enroll_identify_cb(Cur, error, FALSE, found, dev_ok)
            IN /\ st.out = <<Signal("EnrollStatus",
                                    enroll_result_to_name(FALSE, FALSE, error), FALSE)>>
               /\ st.fp.task = "enroll_identify" /\ st.fp.gallery = host
               /\ st.host = host /\ ~st.completed

\* C24 as stated: on a reader that supports identify an accepted EnrollStart
\* starts an identify against all prints of the store; a match ends the
\* enroll with enroll-duplicate and nothing captured or saved; a retry error
\* repeats the identify after a status that is not final; and when nothing
\* matches, enroll-stage-passed is announced and the capture begins.
C24_Original ==
  /\ IdentifyFirst
  /\ DuplicateCheck =>
       \A found \in BOOLEAN, dev_ok \in BOOLEAN :
         StartsCapture(enroll_identify_cb(Cur, OK, FALSE, found, dev_ok))

\* C24 amended: when nothing matches, the capture begins unless the identify
\* returned a print stored on a reader with storage and the reader fails to
\* delete it: then the enroll ends with enroll-duplicate as after a match.
C24_DuplicateCheck ==
  /\ IdentifyFirst
  /\ DuplicateCheck =>
       \A found \in BOOLEAN, dev_ok \in BOOLEAN :
         LET st == enroll_identify_cb(Cur, OK, FALSE, found, dev_ok)
         IN IF found /\ HasFeature("STORAGE") /\ ~dev_ok
            THEN EndsDuplicate(st)
            ELSE StartsCapture(st)

\* the identify of an EnrollStart matched a print of another user
C24_Witness ==
  /\ Emitted(out, EnrollDuplicate)
  /\ priv.current_action = "ACTION_ENROLL" /\ fp.task = "none"
  /\ priv.session.username = "u2" /\ host # {} /\ load_user_prints(host, "u2") = {}

(***************************************************************************)
(* Properties of the delete handlers                                       *)
(***************************************************************************)
\* names of the finger slots the modelled stores use, and of one they do not
SlotNamesAsked == {"left-thumb", "right-index-finger", "right-thumb"}
\* the claimant's call would get past the claim test and the busy test
MayDelete ==
  /\ ~aborted /\ HasSession(priv)
  /\ fprint_device_check_claimed(priv, "DeleteEnrolledFinger", priv.session.sender) = OK
  /\ can_start_action(priv) = OK
DeleteBy == "fprint_device_delete_enrolled_finger"
DeleteReply(r) == <<Reply("DeleteEnrolledFinger", priv.session.sender, r, DeleteBy)>>

\* C27: DeleteEnrolledFinger of a finger name by the claimant, while no
\* operation is in progress, whatever the reader and the store answer:
\* when the slot of the Session's user is empty the reply is
\* NoEnrolledPrints and the store is unchanged; when the store fails to
\* delete the print the reply is PrintsNotDeleted and the print stays;
\* otherwise the print, and nothing else, leaves the store, and the reply is
\* PrintsNotDeletedFromDevice when the reader has storage and failed to
\* delete it, success if not; the Action is None and the Session and the
\* reader are untouched when the handler returns.
C27_DeleteFinger ==
  MayDelete =>
    \A name \in SlotNamesAsked, dev_ok \in BOOLEAN :
    \A failing \in SUBSET Slot(host, name) :
      LET st == fprint_device_delete_enrolled_finger(Cur, priv.session.sender, name,
                                                     dev_ok, failing)
          slot == Slot(host, name)
      IN /\ st.p = priv /\ st.p.current_action = "ACTION_NONE"
         /\ st.fp = fp /\ ~st.ab /\ st.push = NoFrame
         /\ slot = {} => st.host = host /\ st.out = DeleteReply("NoEnrolledPrints")
         /\ (slot # {} /\ failing # {}) =>
              st.host = host /\ st.out = DeleteReply("PrintsNotDeleted")
         /\ (slot # {} /\ failing = {}) =>
              /\ st.host = host \ slot
              /\ st.out = DeleteReply(IF HasFeature("STORAGE") /\ ~dev_ok
                                      THEN "PrintsNotDeletedFromDevice" ELSE OK)

\* the reader failed to delete the print and the store deleted it
C27_Witness ==
  /\ Emitted(out, Reply("DeleteEnrolledFinger", priv.session.sender,
                        "PrintsNotDeletedFromDevice", DeleteBy))
  /\ priv.current_action = "ACTION_NONE" /\ HasSession(priv)
  /\ env.store \ host # {}

LegacyBy == "fprint_device_delete_enrolled_fingers"
LegacyCall(s, user, open_ok, dev_ok, failing) ==
  fprint_device_delete_enrolled_fingers(
    Cur, [m |-> "DeleteEnrolledFingers", s |-> s, arg |-> "", user |-> user],
    open_ok, dev_ok, failing)
\* the reply of a delete of targets of which the store keeps failing
DeleteOutcome(targets, failing, device_failed) ==
  IF targets = {} THEN "NoEnrolledPrints"
  ELSE IF targets \cap failing # {} THEN "PrintsNotDeleted"
  ELSE IF device_failed THEN "PrintsNotDeletedFromDevice"
  ELSE OK
\* the authorization of the call of s, polkit granting everything
LegacyGate(s, arg) ==
  action_authorization_handler(priv, "DeleteEnrolledFingers", s, arg, TRUE,
                               {"verify", "enroll", "setusername"})

\* C28: legacy DeleteEnrolledFingers for a resolved user, whatever the reader
\* and the store answer.  Without a Session the reader is closed before and
\* after (opened and closed in between only when it has storage), the
\* Session stays null and the Action None, the prints of the user the store
\* can delete leave it, and the reply tells the outcome.  In the Session of
\* the caller with no operation in progress, the same happens to the store,
\* the reader stays open and the Session is unchanged.  In the Session of
\* another sender the authorization answers AlreadyInUse, as the handler
\* would, and nothing is deleted.
C28_LegacyDelete ==
  ~aborted =>
    /\ ~HasSession(priv) =>
         priv.current_action = "ACTION_NONE" /\ ~fp.is_open /\ fp.task = "none"
    /\ (HasSession(priv) /\ priv.session.invocation = NoInv) => fp.is_open
    /\ \A s \in Senders :
         LegacyGate(s, "").error =
           (IF ~HasSession(priv) THEN OK
            ELSE IF priv.session.sender # s \/ priv.session.invocation # NoInv
                 THEN "AlreadyInUse"
            ELSE OK)
    /\ \A s \in Senders, user \in Users, open_ok \in BOOLEAN, dev_ok \in BOOLEAN :
       \A failing \in SUBSET load_user_prints(host, user) :
         LET st == LegacyCall(s, user, open_ok, dev_ok, failing)
             targets == load_user_prints(host, user)
             storage == HasFeature("STORAGE")
         IN IF ~HasSession(priv)
            THEN /\ st.p = [priv EXCEPT !.clients = @ \cup {s}]
                 /\ st.p.session = NoSession /\ st.p.current_action = "ACTION_NONE"
                 /\ ~st.fp.is_open /\ st.fp.task = "none" /\ ~st.fp.misuse /\ ~st.ab
                 /\ st.host = host \ (targets \ failing)
                 /\ st.out = <<Reply("DeleteEnrolledFingers", s,
                                     DeleteOutcome(targets, failing,
                                                   storage /\ ~(open_ok /\ dev_ok)),
                                     LegacyBy)>>
            ELSE IF priv.session.sender # s
            THEN /\ st.host = host /\ st.p.session = priv.session /\ st.fp = fp
                 /\ st.out = <<Reply("DeleteEnrolledFingers", s, "AlreadyInUse", LegacyBy)>>
            ELSE (priv.session.invocation = NoInv
                    /\ priv.current_action = "ACTION_NONE") =>
                 /\ st.p = priv /\ st.fp = fp /\ ~st.ab
                 /\ st.host = host \ (targets \ failing)
                 /\ st.out = <<Reply("DeleteEnrolledFingers", s,
                                     DeleteOutcome(targets, failing,
                                                   storage /\ ~(dev_ok /\ fp.task = "none")),
                                     LegacyBy)>>

\* without a Session, on a reader with storage, the prints of a user were
\* deleted from the store while the reader failed to delete them
C28_Witness ==
  /\ ~HasSession(priv) /\ ~fp.is_open /\ priv.current_action = "ACTION_NONE"
  /\ HasFeature("STORAGE")
  /\ \E s \in Senders :
       Emitted(out, Reply("DeleteEnrolledFingers", s, "PrintsNotDeletedFromDevice", LegacyBy))
  /\ load_user_prints(env.store, "u1") # {} /\ load_user_prints(host, "u1") = {}

(***************************************************************************)
(* Properties of a Claim whose open fails                                  *)
(***************************************************************************)
\* the open started by a Claim has not completed
OpenPending == fp.task = "open" /\ HasSession(priv) /\ ~aborted
ClaimCall(st, s) ==
  fprint_device_claim(st, [m |-> "Claim", s |-> s, arg |-> "", user |-> pw_name(s)])

\* C29: while the open started by a Claim is pending the Action is Open and
\* the Session holds the Claim's invocation, and the authorization rejects
\* with AlreadyInUse every call of every sender, the claimant included,
\* except ListEnrolledFingers.  When the open fails the Claim is answered
\* with the error Internal, the Session is cleared, the Action is None and
\* the reader is closed; in that state the Claim of any sender passes the
\* claim test and starts a new open for a Session of that sender.
C29_OpenFailed ==
  OpenPending =>
    /\ priv.current_action = "ACTION_OPEN"
    /\ priv.session.invocation = Inv("Claim", priv.session.sender)
    /\ \A s \in Senders, m \in Methods \ {"ListEnrolledFingers"} :
         /\ fprint_device_check_claimed(priv, m, s) = "AlreadyInUse"
         /\ \A arg \in ArgsOf(m) :
              LET r == action_authorization_handler(priv, m, s, arg, TRUE,
                                                    {"verify", "enroll", "setusername"})
              IN /\ r.error = "AlreadyInUse"
                 /\ r.out = <<Reply(m, s, "AlreadyInUse", "action_authorization_handler")>>
    /\ LET st == dev_open_cb(Cur, FALSE)
       IN /\ st.out = <<Reply("Claim", priv.session.sender, "Internal", "dev_open_cb")>>
          /\ st.p.session = NoSession /\ st.p.current_action = "ACTION_NONE"
          /\ ~st.fp.is_open /\ st.fp.task = "none" /\ ~st.ab
          /\ st.host = host
          /\ \A s \in Senders :
               LET again == ClaimCall(Handled(st), s)
               IN /\ fprint_device_check_claimed(st.p, "Claim", s) = OK
                  /\ again.out = <<>> /\ ~again.ab
                  /\ again.p.session.sender = s
                  /\ again.p.session.invocation = Inv("Claim", s)
                  /\ again.p.current_action = "ACTION_OPEN"
                  /\ again.fp.task = "open"

\* the open of s1's Claim failed: the Claim is answered and no Session is left
C29_Witness ==
  /\ Emitted(out, Reply("Claim", "s1", "Internal", "dev_open_cb"))
  /\ ~HasSession(priv) /\ priv.current_action = "ACTION_NONE" /\ ~fp.is_open
  /\ "s1" \in priv.clients

(***************************************************************************)
(* Properties of the reconciliation of the local storage                   *)
(***************************************************************************)
\* a verify or identify whose completion is due, on a device with a Session
Completing ==
  /\ fp.task \in {"verify", "identify"} /\ HasSession(priv) /\ ~aborted
  /\ priv.current_action \in {"ACTION_VERIFY", "ACTION_IDENTIFY"}
\* the completion of the running task with these answers of the reader and
\* of the store
Completion(match, error, list_ok, device_prints, failing) ==
  verify_cb(Cur, fp.task, match, error, list_ok, device_prints, failing)
FinalErrors == {OK, "CANCELLED"} \cup DriverErrors

\* C32 as stated: once local_storage_checked is set, a completion that
\* reports no match or data-not-found deletes no host print, whatever the
\* reader would list.
C32_Original ==
  (Completing /\ priv.local_storage_checked) =>
    \A error \in {OK, "DATA_NOT_FOUND"}, device_prints \in SUBSET host :
      Completion(FALSE, error, TRUE, device_prints, {}).host = host

\* C32: once local_storage_checked is set it stays set over every
\* completion, and a completion without the data-not-found error (a match,
\* no match, a cancellation or another error) neither depends on the list of
\* the reader nor deletes a host print.  A completion with data-not-found on
\* a reader that can list still runs the reconciliation: the host keeps
\* exactly the prints the reader lists and those whose delete fails.
C32_LatchedUnlessNotFound ==
  (Completing /\ priv.local_storage_checked) =>
    \A error \in FinalErrors, match \in BOOLEAN :
      LET unlisted == Completion(match, error, FALSE, {}, {})
      IN /\ unlisted.p.local_storage_checked
         /\ unlisted.host = host
         /\ IF error = "DATA_NOT_FOUND" /\ HasFeature("STORAGE_LIST")
            THEN \A device_prints \in SUBSET host, failing \in {{}, host} :
                   LET st == Completion(match, error, TRUE, device_prints, failing)
                   IN /\ st.p.local_storage_checked
                      /\ st.host = {h \in host : h \in device_prints \/ h \in failing}
            ELSE Completion(match, error, TRUE, {}, {}) = unlisted

\* a verify is running again on a listing reader after the reconciliation
\* ran, and the host still has prints to lose
C32_Witness ==
  /\ Completing /\ priv.local_storage_checked /\ HasFeature("STORAGE_LIST")
  /\ host # {} /\ fp.reported = "nomatch"

\* the completions that start the reconciliation in this state
Reconciles(match, error) ==
  /\ HasFeature("STORAGE_LIST")
  /\ \/ error = "DATA_NOT_FOUND"
     \/ error = OK /\ ~match /\ ~priv.local_storage_checked

\* C33: a completion of verify or identify starts the reconciliation only
\* on a reader that can list and only when it reports data-not-found or,
\* before the latch is set, no match without error; a match, a
\* cancellation, a retry or another error leaves the host store and the
\* latch alone and does not depend on the list.  When it runs and the list
\* is obtained, the host keeps the prints the reader lists and loses the
\* others, all of them when no delete fails, whoever their user is.  Whether
\* the listing or a delete fails changes nothing but the host store: the
\* signals, the replies, the Action and the Session are the same.
C33_Reconciliation ==
  Completing =>
    \A error \in FinalErrors \cup DriverRetry, match \in BOOLEAN :
      LET unlisted == Completion(match, error, FALSE, {}, {})
      IN /\ unlisted.host = host
         /\ IF Reconciles(match, error)
            THEN /\ unlisted.p.local_storage_checked
                 /\ \A device_prints \in SUBSET host, failing \in {{}, host} :
                      LET st == Completion(match, error, TRUE, device_prints, failing)
                      IN /\ st.host = {h \in host : h \in device_prints \/ h \in failing}
                         /\ host \cap device_prints \subseteq st.host
                         /\ failing = {} => st.host = host \cap device_prints
                         /\ [st EXCEPT !.host = host] = unlisted
            ELSE /\ Completion(match, error, TRUE, {}, {}) = unlisted
                 /\ unlisted.p.local_storage_checked = priv.local_storage_checked

\* a completion with a final VerifyStatus has just removed a host print
\* that the reader did not list, and kept another
C33_Witness ==
  /\ priv.local_storage_checked /\ fp.task = "none" /\ ~aborted
  /\ host # {} /\ host # env.store /\ host \subseteq env.store
  /\ \E i \in 1..Len(out) : out[i].t = "signal" /\ out[i].n = "VerifyStatus" /\ out[i].done

(***************************************************************************)
(* Properties of the cancellation token                                    *)
(***************************************************************************)
StoppableActions == {"ACTION_VERIFY", "ACTION_IDENTIFY", "ACTION_ENROLL"}

\* C34 as stated: while the operation of the Action has not completed, the
\* Action is None or the token is non-null.
C34_Original ==
  (~aborted /\ fp.task # "none") =>
    priv.current_action = "ACTION_NONE" \/ priv.current_cancellable # "null"

\* C34: while a verify, an identify or an enroll has not completed, the
\* Action is Verify, Identify or Enroll and the token is non-null; while an
\* open or a close is pending the Action is Open or Close and there is no
\* token; and whenever the Action is None there is no token.
C34_TokenWhileRunning ==
  ~aborted =>
    /\ fp.task \in {"verify", "identify", "enroll", "enroll_identify"} =>
         priv.current_action \in StoppableActions /\ priv.current_cancellable # "null"
    /\ fp.task \in {"open", "close"} =>
         /\ priv.current_action \in {"ACTION_OPEN", "ACTION_CLOSE"}
         /\ priv.current_cancellable = "null"
    /\ priv.current_action = "ACTION_NONE" => priv.current_cancellable = "null"

\* a verify that was stopped is still running with its cancelled token
C34_Witness ==
  /\ fp.task = "verify" /\ priv.current_action = "ACTION_VERIFY" /\ ~aborted
  /\ priv.current_cancellable = "cancelled"

(***************************************************************************)
(* Properties of the status of a verify                                    *)
(***************************************************************************)
\* the final VerifyStatus of the current verify or identify has been emitted
FinalReported ==
  /\ HasSession(priv) /\ priv.session.verify_status_reported
  /\ priv.current_action \in {"ACTION_VERIFY", "ACTION_IDENTIFY"}

C36_RetryLoop ==
  Completing =>
    /\ \A error \in RetryErrors, match \in BOOLEAN :
         LET st == Completion(match, error, TRUE, {}, {})
         IN /\ st.fp.task = fp.task /\ ~st.ab
            /\ st.fp.gallery = (IF fp.task = "identify" THEN priv.identify_data ELSE {})
            /\ st.fp.reported = (IF priv.current_cancellable = "cancelled" THEN "dead"
                                 ELSE "none")
            /\ st.out = <<>>
            /\ st.p = priv /\ st.host = host
    /\ priv.current_cancellable = "cancelled" =>
         LET st == Completion(FALSE, "CANCELLED", TRUE, {}, {})
             inv == priv.current_cancel_invocation
         IN /\ st.fp.task = "none" /\ ~st.ab
            /\ st.p.current_action = "ACTION_NONE"
            /\ st.p.current_cancellable = "null"
            /\ st.p.current_cancel_invocation = NoInv
            /\ st.p.verify_data = {} /\ st.p.identify_data = {}
            /\ \A i \in 1..Len(st.out) : st.out[i].t = "reply" =>
                 inv # NoInv /\ st.out[i] = ReplyTo(inv, OK, "stoppable_action_completed")
            /\ inv # NoInv =>
                 Emitted(st.out, ReplyTo(inv, OK, "stoppable_action_completed"))

\* a VerifyStop cancelled a verify that had reported a retry, and the
\* completion with the cancellation error is due
C36_Witness ==
  /\ Completing /\ priv.current_cancellable = "cancelled"
  /\ priv.current_cancel_invocation.m = "VerifyStop"
  /\ fp.reported = "retry"

(***************************************************************************)
(* Properties of the clients map                                           *)
(***************************************************************************)
\* C38: after every step the sender of the Session, if there is a Session,
\* is in the clients map, so the map of a claimed device is not empty; and
\* a name that a step takes out of the map has vanished from the bus and is
\* not the sender of the Session the step leaves.
C38_ClaimantWatched ==
  [][/\ HasSession(priv') => priv'.session.sender \in priv'.clients
     /\ \A name \in priv.clients \ priv'.clients :
          name \notin alive' /\ priv'.session.sender # name]_vars

\* the claimant vanished during an operation: its Session is still there
\* and so is its entry in the map
C38_Witness ==
  /\ HasSession(priv) /\ priv.session.sender \notin alive
  /\ priv.session.sender \in priv.clients
  /\ stack # <<>> /\ Top.kind = "vanished"

(***************************************************************************)
(* Properties of a Release that waited                                     *)
(***************************************************************************)
\* C39: when a Release of sender S returns from its wait and the Session is
\* not one of S (there is none, or another sender owns it), the Release is
\* answered with success, the Session is left as it is, no close is started
\* and the reader stays as it was.
C39_ReleaseOwnSession ==
  [][(/\ stack # <<>> /\ Top.kind = "release" /\ Len(stack') < Len(stack)
      /\ priv.session.sender # Top.inv.s /\ ~aborted')
     => /\ priv'.session = priv.session
        /\ fp'.task = fp.task /\ fp'.is_open = fp.is_open
        /\ priv'.current_action = priv.current_action
        /\ Emitted(out', ReplyTo(Top.inv, OK, "fprint_device_release"))]_vars

(***************************************************************************)
(* Properties of the replies to stored invocations                         *)
(***************************************************************************)
\* the invocations the device keeps to answer them later
Held(p) == {p.current_cancel_invocation, p.session.invocation} \ {NoInv}
\* the functions that answer a kept invocation
Completions == {"stoppable_action_completed", "dev_open_cb", "dev_close_cb"}
\* never zero: an invocation the device stops keeping is answered in that step
HeldAnsweredStep ==
  \A v \in Held(priv) \ Held(priv') :
    \E i \in 1..Len(out') : Answers(out'[i], v)
\* an invocation a completion has answered is no longer kept
AnswersHeldStep ==
  \A i \in 1..Len(out') :
    (out'[i].t = "reply" /\ out'[i].by \in Completions)
    => \A v \in Held(priv') : ~Answers(out'[i], v)
\* never two: a handler that returns from its wait keeps its invocation only
\* if it has not been answered while it waited
KeptOnceStep ==
  (stack # <<>> /\ Len(stack') < Len(stack) /\ Top.kind = "verify_stop"
   /\ Top.inv \in Held(priv'))
  => Top.inv \in Held(priv)

\* C40: every invocation a handler takes charge of is answered exactly once:
\* an invocation kept for a later reply (the pending Stop, the Claim or Release
\* whose open or close is pending) is answered in the step that stops keeping
\* it, an invocation a completion has answered is no longer kept, and a
\* VerifyStop parked in the settle window is not kept again once the
\* completion has answered it.
C40_ExactlyOneReply ==
  [][~aborted' => HeldAnsweredStep /\ AnswersHeldStep /\ KeptOnceStep]_vars

(***************************************************************************)
(* Properties of the manager                                               *)
(***************************************************************************)
\* C9: a step closes the held delay inhibitor only if it leaves no device
\* suspend issued by the manager outstanding.
C9_ClosedAfterAllSuspends ==
  [][(mgr.sleep_inhibit_fd \in InhibitFds /\ mgr'.sleep_inhibit_fd = -1)
       => mgr'.suspending = 0]_vars

\* C10: when PrepareForSleep(true) was the last signal and its handler or a
\* suspend completion has just left no suspend outstanding, the counter is
\* zero and no inhibitor is held.
C10_ReleasedAfterAllSuspends ==
  (/\ mgr.sleeping /\ mgr.suspending = 0
   /\ mgr.last \in {"handle_prepare_for_sleep_signal", "fprint_device_suspend_cb"})
  => /\ mgr.prepare_for_sleep_pending = 0
     /\ mgr.sleep_inhibit_fd = -1

\* what C11 asks of one step
C11_InhibitorStep ==
  /\ mgr.open_fds \subseteq {mgr.sleep_inhibit_fd}
  /\ mgr'.open_fds \subseteq {mgr'.sleep_inhibit_fd}
  /\ (mgr'.last = "handle_prepare_for_sleep_signal" /\ ~mgr'.sleeping)
       => /\ mgr'.resumed = mgr.devices
          /\ mgr'.inhibit_calls = mgr.inhibit_calls + 1
  /\ (mgr'.last = "logind_sleep_inhibit_cb" /\ mgr'.sleep_inhibit_fd # mgr.sleep_inhibit_fd)
       => /\ mgr'.sleep_inhibit_fd \in InhibitFds
          /\ mgr'.sleep_inhibit_fd \notin mgr.open_fds
          /\ mgr'.open_fds = {mgr'.sleep_inhibit_fd}
  /\ mgr'.inhibit_calls < mgr.inhibit_calls => mgr'.last = "logind_sleep_inhibit_cb"

\* C11: the faked resume of the construction has asked for an inhibitor;
\* every PrepareForSleep(false) resumes every device and sends one more
\* Inhibit call; a successful Inhibit reply leaves the descriptor it brought
\* as the only inhibitor descriptor open, the one held before being closed;
\* and in every state the inhibitor descriptors open in the process are at
\* most the one the manager holds.
C11_OneInhibitor ==
  /\ fprint_manager_constructed.inhibit_calls = 1
  /\ [][C11_InhibitorStep]_vars

\* a second Inhibit reply replaced the descriptor the first one brought
C11_Witness ==
  /\ mgr.last = "logind_sleep_inhibit_cb"
  /\ mgr.sleep_inhibit_fd = 4 /\ mgr.open_fds = {4}

\* ---------------------------------------------------------------------
\* Properties of the manager's devices and of the idle-exit timer
\* ---------------------------------------------------------------------
NoDeviceBusy ==
  \A i \in 1..Len(mgr.objects) :
    mgr.objects[i].clients = {} /\ mgr.objects[i].temperature = FP_TEMPERATURE_COLD

\* C25: the idle-exit timer is pending only while no device watches a bus
\* name or has a reader that is not cold, and without --no-timeout it is
\* pending whenever that is so; there is never more than the one timeout
\* source priv->timeout_id names; the process has exited from the timer only
\* in such a state; and with --no-timeout there is no timer and no exit.
C25_IdleTimer ==
  /\ mgr.timeout_id # 0 => NoDeviceBusy
  /\ mgr.timers = (IF mgr.timeout_id # 0 THEN 1 ELSE 0)
  /\ (~mgr.no_timeout /\ NoDeviceBusy) => mgr.timeout_id # 0
  /\ mgr.exited => NoDeviceBusy /\ ~mgr.no_timeout
  /\ mgr.no_timeout => mgr.timeout_id = 0 /\ mgr.timers = 0 /\ ~mgr.exited
  /\ \A i \in 1..Len(mgr.objects) :
       fprint_device_busy(mgr.objects[i])
         <=> ~(mgr.objects[i].clients = {}
               /\ mgr.objects[i].temperature = FP_TEMPERATURE_COLD)

\* the last client of the last busy device went away and the timer is armed
\* again, with two devices present
C25_Witness ==
  /\ mgr.last = "fprint_device_client_vanished"
  /\ Len(mgr.objects) = 2 /\ mgr.timeout_id # 0 /\ ~mgr.no_timeout

Paths(seq) == {seq[i] : i \in 1..Len(seq)}

\* C26: in every state the device additions and removals lead to,
\* GetDefaultDevice answers NoSuchDevice exactly when no device is exported,
\* and otherwise answers the path of the device the object manager lists
\* last; GetDevices answers the paths of all exported devices, each once,
\* in the reverse of that order, so the default device is the first of them;
\* and the reply a call was completed with is that answer.
C26_DefaultDevice ==
  LET default == fprint_manager_get_default_device(mgr)
      all == fprint_manager_get_devices(mgr)
      n == Len(mgr.objects)
  IN /\ n = mgr.devices
     /\ (default[1] = "NoSuchDevice") <=> (n = 0)
     /\ default[1] \in {OK, "NoSuchDevice"}
     /\ n = 0 => default[2] = <<>> /\ all = <<OK, <<>> >>
     /\ n > 0 =>
          /\ default = <<OK, <<get_device_path(mgr.objects[n])>> >>
          /\ default[2][1] \in Paths(all[2])
          /\ default[2][1] = all[2][1]
     /\ all[1] = OK /\ Len(all[2]) = n
     /\ Paths(all[2]) = {get_device_path(mgr.objects[i]) : i \in 1..n}
     /\ Cardinality(Paths(all[2])) = n
     /\ mgr.last = "handle_get_default_device" => mgr.reply = default
     /\ mgr.last = "handle_get_devices" => mgr.reply = all

\* with two devices exported, the one added first is listed last and is the
\* default device
C26_Witness ==
  /\ mgr.last = "handle_get_default_device"
  /\ Len(mgr.objects) = 2 /\ mgr.objects[2].id < mgr.objects[1].id
  /\ mgr.reply = <<OK, <<mgr.objects[2].id>> >>

(***************************************************************************)
(* Properties of the garbage collection                                    *)
(***************************************************************************)
\* the prints try_delete_print chose from: on the reader, equal to no host print
Unneeded == {gc.remainder[i] : i \in DOMAIN gc.remainder}

\* C30: when try_delete_print succeeds and every print of the reader that
\* equals no host print carries a valid enrollment date, the print it
\* deleted is one of them and none of them was enrolled on an earlier day.
C30_OldestDeleted ==
  (gc.result = "TRUE" /\ \A x \in Unneeded : x.julian > 0) =>
    /\ gc.deleted \in Unneeded
    /\ \A x \in Unneeded : gc.deleted.julian <= x.julian

\* what the comparison yields instead: the print deleted is one that equals
\* no host print and none of those was enrolled on a later day
GcDeletesNewest ==
  gc.result = "TRUE" =>
    /\ gc.deleted \in Unneeded
    /\ gc.deleted \notin gc.device
    /\ \A i \in DOMAIN gc.host : gc.deleted.key # gc.host[i]
    /\ \A x \in Unneeded : gc.deleted.julian >= x.julian

\* the prints of the reader that equal no host print
Foreign(g) == {x \in g.device : \A i \in DOMAIN g.host : g.host[i] # x.key}

\* C31: when an enroll that is not cancelled completes with DATA_FULL, the
\* reader loses at most one print and only one that equals no host print.
\* The enroll is restarted exactly when a print was deleted: then no signal
\* is emitted, the new template is for the same user and finger, the token,
\* the Action and the Session are untouched, and one foreign print less
\* remains.  Otherwise the reader keeps all its prints and
\* EnrollStatus(enroll-data-full, done) is emitted; this happens only when
\* the reader cannot list, the listing or the delete fails, or no foreign
\* print is left.  So each turn of the loop uses up one foreign print.
C31_CollectOnce ==
  (fp.task = "enroll" /\ ~aborted /\ priv.current_cancellable # "cancelled") =>
    \A i \in CollectInputs("DATA_FULL") :
      LET r == enroll_cb_collect(Cur, gc, "DATA_FULL", i.list_ok, i.listed, i.sort_rand,
                                 i.dev_ok, i.save_ok)
          gone == gc.device \ r.g.device
          restarted == r.st.fp.task = "enroll"
      IN /\ r.g.device \subseteq gc.device
         /\ Cardinality(gone) <= 1
         /\ gone \subseteq Foreign(gc)
         /\ restarted <=> Cardinality(gone) = 1
         /\ restarted =>
              /\ r.st.out = <<>> /\ ~r.st.ab
              /\ r.st.fp.template = {FpPrint(priv.session.username, priv.enroll_data)}
              /\ r.st.fp.reported = "none"
              /\ r.st.p = priv /\ r.st.host = host
              /\ Foreign(r.g) = Foreign(gc) \ gone
              /\ Cardinality(Foreign(r.g)) = Cardinality(Foreign(gc)) - 1
         /\ ~restarted =>
              /\ Emitted(r.st.out, Signal("EnrollStatus", "enroll-data-full", TRUE))
              /\ r.st.fp.task = "none"
              /\ r.st.host = host
              /\ \/ ~HasFeature("STORAGE_LIST") \/ ~i.list_ok \/ ~i.dev_ok
                 \/ Foreign(gc) = {}

\* an enroll restarted after a foreign print was deleted, on a reader that
\* also holds a print of the host
C31_Witness ==
  /\ fp.task = "enroll" /\ gc.result = "TRUE" /\ gc.deleted # NoPrint
  /\ priv.current_action = "ACTION_ENROLL"
  /\ \E x \in gc.device : \E i \in DOMAIN gc.host : gc.host[i] = x.key

(***************************************************************************)
(* Properties of the file backend                                          *)
(***************************************************************************)
\* the print kept in the file of this slot, NoStorePrint if there is none
Stored(files, dev, finger, username) ==
  fp_print_deserialize(
    files[get_path_to_print(dev, finger,
                            file_storage_get_basestore_for_username(username))])

\* C37: on every content of the storage path: a save that returns 0 is
\* followed by a load of the print's reader, finger and user that returns 0
\* and that print; a load whose file holds a print of another finger, user
\* or reader returns no print; a delete of a slot without a file returns 0
\* and changes no file; and after a delete that returned 0 the listing of
\* that reader and user does not hold the finger.
C37_FileBackend ==
  /\ \A print \in StorePrints :
       LET s == file_storage_print_data_save(disk.files, print, TRUE, TRUE, TRUE)
           l == file_storage_print_data_load(s.files, print.dev, print.finger,
                                             print.username, TRUE)
       IN /\ s.r = "0" /\ l.r = "0" /\ l.print = print
          /\ \A serialize_ok, mkdir_ok, write_ok \in BOOLEAN :
               LET f == file_storage_print_data_save(disk.files, print, serialize_ok,
                                                     mkdir_ok, write_ok)
               IN f.r = "0" => f = s
  /\ \A dev \in StoreDevs, finger \in StoreFingers, username \in Users :
       LET kept == Stored(disk.files, dev, finger, username)
           l == file_storage_print_data_load(disk.files, dev, finger, username, TRUE)
           d == file_storage_print_data_delete(disk.files, dev, finger, username, TRUE)
           path == get_path_to_print(dev, finger,
                                     file_storage_get_basestore_for_username(username))
       IN /\ (kept.finger # finger \/ kept.username # username \/ kept.dev # dev) =>
               l.print = NoStorePrint /\ l.r # "0"
          /\ l.r = "0" => l.print = kept /\ kept \in StorePrints
          /\ disk.files[path] = NoFile =>
               \A unlink_ok \in BOOLEAN :
                 file_storage_print_data_delete(disk.files, dev, finger, username,
                                                unlink_ok)
                 = [files |-> disk.files, r |-> "0"]
          /\ d.r = "0" /\ finger \notin file_storage_discover_prints(d.files, dev, username)
          /\ \A q \in StorePaths \ {path} : d.files[q] = disk.files[q]
          /\ file_storage_print_data_delete(disk.files, dev, finger, username, FALSE).files
             = disk.files

\* a load has just refused a file that holds a print of another slot
C37_Witness ==
  /\ disk.call = "load" /\ disk.r = "-EINVAL" /\ disk.print = NoStorePrint
  /\ FileCount(disk.files) = MaxFiles

====
